---- MODULE Spec2Model ----
(***************************************************************************)
(* A model of the rtrs ray tracer: the triangle mesh with its bounding     *)
(* volume hierarchy, the matrix kernel, the scene shading pipeline and the *)
(* parallel frame renderer.                                                *)
(*                                                                         *)
(* Numbers.  The program computes in f32.  The model computes exactly, on  *)
(* inputs for which the f32 results order the same way as the exact ones:  *)
(* coordinates and directions are small integers, and the three small      *)
(* constants of the intersection code keep their ratios.  A length is      *)
(* counted in units of 0.00001 (the padding of a bounding box), so that    *)
(* 1.0 is UNIT units and MIN_RAY_T (0.0001) is 10 units.                   *)
(***************************************************************************)
EXTENDS Integers, Sequences, FiniteSets, TLC

VARIABLES
    \* ---- surface/mesh.rs: TriangleMesh and one ray shot at it
    triangles,      \* TriangleMesh.triangles: a sequence of vertex-index triples
    bvh,            \* TriangleMesh.bvh: Option<BoundingVolumeHierarchy>
    ray,            \* the ray handed to compute_hit: [origin, direction]
    bvh_hit,        \* what BoundingVolumeHierarchy::compute_hit returned
    slow_hit,       \* what TriangleMesh::compute_slow_hit returned
    hit_log,        \* the tests the BVH traversal performed, in order
    mesh_pc         \* the calls made so far: "from_obj", "compute_hit", "compute_slow_hit"

mesh_vars == <<triangles, bvh, ray, bvh_hit, slow_hit, hit_log, mesh_pc>>

VARIABLES
    \* ---- matrix.rs: two affine transforms and a point
    mat_A,          \* a Transformation: [transform_mat, translation]
    mat_B,          \* a second Transformation
    mat_p,          \* a Point
    mat_inv,        \* Some(mat_A.compute_inverse()) once computed
    mat_composed,   \* Some(&mat_A * &mat_B) once computed
    mat_out,        \* the points computed so far, by name
    mat_pc          \* the calls made so far

matrix_vars == <<mat_A, mat_B, mat_p, mat_inv, mat_composed, mat_out, mat_pc>>

VARIABLES
    \* ---- scene.rs: the reflection direction of compute_ray_color
    refl_direction, \* ray_camera.direction
    refl_normal,    \* hit.normal, of unit length
    refl_out        \* Some(reflection_dir) once computed

refl_vars == <<refl_direction, refl_normal, refl_out>>

VARIABLES
    \* ---- ray_tracer.rs: render_state
    rnd_pc,         \* where render_state is
    rnd_taken,      \* the indices of the items handed to a worker so far
    rnd_worker,     \* per worker: None, or Some of the item and its colour
    rnd_pixels,     \* the Vec<Color> being collected, None where not written
    rnd_calls,      \* per (i, j): how many times compute_pixel(i, j) ran
    rnd_writes,     \* per slot: how many times it was written
    rnd_img         \* Some(img) once the put_pixel loop has run

render_vars == <<rnd_pc, rnd_taken, rnd_worker, rnd_pixels, rnd_calls, rnd_writes, rnd_img>>

VARIABLES
    \* ---- scene.rs: compute_pixel and compute_ray_color
    sc_scene,       \* the Scene: objects' visual data, lights, strengths
    sc_opts,        \* the RenderOptions
    sc_world,       \* what the geometry of the scene answers for each ray
    sc_px,          \* the running compute_pixel call
    sc_stack,       \* the running compute_ray_color calls, innermost last
    sc_rng,         \* the thread-local random generator
    sc_results      \* the colours compute_pixel has returned so far

scene_vars == <<sc_scene, sc_opts, sc_world, sc_px, sc_stack, sc_rng, sc_results>>

VARIABLES
    \* ---- surface/quadrics.rs: the quadratic-root helper
    rt_coeffs,      \* the coefficients <<a, b, c>> handed to find_square_roots
    rt_roots,       \* Some(what find_square_roots returned) once called
    rt_t,           \* Some(what select_smallest_positive_root returned) once called
    rt_pc           \* the calls made so far

roots_vars == <<rt_coeffs, rt_roots, rt_t, rt_pc>>

VARIABLES
    \* ---- surface/quadrics.rs, surface/mesh.rs: one surface and one ray
    sf_surface,     \* the surface: a Plane, a Sphere, a Cone or a Triangle
    sf_ray,         \* the ray handed to compute_hit: [origin, direction]
    sf_hit,         \* what compute_hit returned
    sf_pc           \* the calls made so far

surface_vars == <<sf_surface, sf_ray, sf_hit, sf_pc>>

VARIABLES
    \* ---- camera.rs: one camera and the rays generated from it
    cam_camera,     \* the Camera
    cam_rays        \* per pixel (i, j): None, or Some of the ray generate_ray returned

camera_vars == <<cam_camera, cam_rays>>

VARIABLES
    \* ---- ray_tracer.rs: the event loop
    app_ray_opts,   \* what RayOptions::from_depth(0) returns
    app_state,      \* the State the event handlers update
    app_scene       \* what the last compute_scene did: None before the first view

app_vars == <<app_ray_opts, app_state, app_scene>>

VARIABLES
    \* ---- rasterizer.rs: the event loop
    rast_model,     \* the loaded model: the number of faces, and whether it has normals
    rast_state,     \* the fields of State the event handlers update
    rast_render     \* what the last render_state did: None before the first view

rast_vars == <<rast_model, rast_state, rast_render>>

vars == <<mesh_vars, matrix_vars, refl_vars, render_vars, scene_vars,
          roots_vars, surface_vars, camera_vars, app_vars, rast_vars>>

(* The variables of a subsystem that is not running hold these values. *)
MeshIdle ==
    /\ triangles = <<>> /\ bvh = <<>> /\ ray = <<>> /\ bvh_hit = <<>>
    /\ slow_hit = <<>> /\ hit_log = <<>> /\ mesh_pc = {}
MatrixIdle ==
    /\ mat_A = <<>> /\ mat_B = <<>> /\ mat_p = <<>> /\ mat_inv = <<>>
    /\ mat_composed = <<>> /\ mat_out = <<>> /\ mat_pc = {}
ReflIdle ==
    /\ refl_direction = <<>> /\ refl_normal = <<>> /\ refl_out = <<>>
RenderIdle ==
    /\ rnd_pc = "idle" /\ rnd_taken = {} /\ rnd_worker = <<>> /\ rnd_pixels = <<>>
    /\ rnd_calls = <<>> /\ rnd_writes = <<>> /\ rnd_img = <<>>
SceneIdle ==
    /\ sc_scene = <<>> /\ sc_opts = <<>> /\ sc_world = <<>> /\ sc_px = <<>>
    /\ sc_stack = <<>> /\ sc_rng = <<>> /\ sc_results = <<>>
RootsIdle ==
    /\ rt_coeffs = <<>> /\ rt_roots = <<>> /\ rt_t = <<>> /\ rt_pc = {}
SurfaceIdle ==
    /\ sf_surface = <<>> /\ sf_ray = <<>> /\ sf_hit = <<>> /\ sf_pc = {}
CameraIdle ==
    /\ cam_camera = <<>> /\ cam_rays = <<>>
AppIdle ==
    /\ app_ray_opts = <<>> /\ app_state = <<>> /\ app_scene = <<>>
RastIdle ==
    /\ rast_model = <<>> /\ rast_state = <<>> /\ rast_render = <<>>

----------------------------------------------------------------------------
(* Option<T>: None is the empty sequence, Some(x) a sequence of one.       *)
None == <<>>
Some(x) == <<x>>
IsSome(o) == o # None
Unwrap(o) == o[1]

----------------------------------------------------------------------------
(* f32 values.  kind "fin" is the rational n / (d * UNIT) with d > 0;      *)
(* kind "huge" is n units divided by EPSILON (1e-10), whose magnitude, at  *)
(* least 1e5 for n # 0, exceeds every "fin" value of the model; "inf" is   *)
(* f32::INFINITY and "nan" is NaN.                                         *)
UNIT == 100000
BBOX_PAD == 1
MIN_RAY_T == 10

Fin(n, d) == [kind |-> "fin", n |-> n, d |-> d]
Huge(n) == [kind |-> "huge", n |-> n, d |-> 1]
Inf == [kind |-> "inf", n |-> 1, d |-> 1]
NaN == [kind |-> "nan", n |-> 0, d |-> 1]

Sign(n) == IF n > 0 THEN 1 ELSE IF n < 0 THEN -1 ELSE 0

(* a < b on f32: false as soon as one side is NaN. *)
Less(a, b) ==
    CASE a.kind = "nan" \/ b.kind = "nan" -> FALSE
      [] a.kind = "inf" -> FALSE
      [] b.kind = "inf" -> TRUE
      [] a.kind = "fin" /\ b.kind = "fin" -> a.n * b.d < b.n * a.d
      [] a.kind = "huge" /\ b.kind = "huge" -> a.n < b.n
      [] a.kind = "huge" /\ b.kind = "fin" ->
            IF a.n = 0 THEN b.n > 0 ELSE a.n < 0
      [] a.kind = "fin" /\ b.kind = "huge" ->
            IF b.n = 0 THEN a.n < 0 ELSE b.n > 0

Greater(a, b) == Less(b, a)

(* The same f32 value (NaN equals nothing).  Used by the claims only. *)
SameValue(a, b) ==
    /\ a.kind # "nan" /\ b.kind # "nan"
    /\ ~Less(a, b) /\ ~Less(b, a)

(* n units divided by (direction + EPSILON), aabb.rs:20.  EPSILON = 1e-10  *)
(* is below half an ulp of every non-zero integer, so direction + EPSILON  *)
(* is the direction itself unless the direction is 0, when it is EPSILON.  *)
DivByDirPlusEpsilon(n, dir) ==
    IF dir = 0 THEN Huge(n)
    ELSE IF dir > 0 THEN Fin(n, dir) ELSE Fin(-n, -dir)

----------------------------------------------------------------------------
(* basics.rs: Vec3 and Point, as triples <<x, y, z>>. *)
VecSub(p, q) == <<p[1] - q[1], p[2] - q[2], p[3] - q[3]>>
VecAdd(p, q) == <<p[1] + q[1], p[2] + q[2], p[3] + q[3]>>
VecScale(v, k) == <<v[1] * k, v[2] * k, v[3] * k>>
dot_product(a, b) == a[1] * b[1] + a[2] * b[2] + a[3] * b[3]
cross_product(a, b) ==
    << a[2] * b[3] - a[3] * b[2],
       a[3] * b[1] - a[1] * b[3],
       a[1] * b[2] - a[2] * b[1] >>
norm_squared(v) == dot_product(v, v)

----------------------------------------------------------------------------
(* surface/mesh.rs: the shared vertex buffer (Triangle.positions) and the   *)
(* triangles that index it.  Vertices 1, 2, 3 are the triangle of          *)
(* mesh_tests::create_dummy_triangle; vertices 1, 2, 4 lie on one line.    *)
Positions ==
    << <<0, 0, 1>>, <<1, 0, 1>>, <<0, 1, 1>>, <<2, 0, 1>>,
       <<2, 2, 2>>, <<0, 2, 3>> >>

TriangleChoices ==
    { <<1, 2, 3>>, <<2, 4, 5>>, <<3, 5, 6>>, <<1, 2, 4>>, <<1, 3, 6>>, <<1, 3, 4>> }

RayOrigins == { <<0, 0, 0>>, <<1, 0, 0>>, <<1, 1, 3>>, <<3, 1, 1>> }
RayDirections ==
    { <<0, 0, 1>>, <<0, 0, -1>>, <<-1, 0, 0>>, <<1, 1, 1>>,
      <<1, 1, 2>>, <<-1, 0, -1>>, <<0, 1, 2>> }

MaxTriangles == 3

Min2(a, b) == IF a < b THEN a ELSE b
Max2(a, b) == IF a > b THEN a ELSE b

V0(tri) == Positions[tri[1]]
V1(tri) == Positions[tri[2]]
V2(tri) == Positions[tri[3]]

(* Triangle::compute_normal.  The model keeps the cross product before it  *)
(* is normalized: dividing by the norm changes no sign and cancels in t.   *)
(* A zero cross product normalizes to (NaN, NaN, NaN).                     *)
compute_normal(tri) == cross_product(VecSub(V1(tri), V0(tri)), VecSub(V2(tri), V0(tri)))
NormalIsNaN(tri) == compute_normal(tri) = <<0, 0, 0>>

(* Triangle::compute_center, times 3: the sum the code scales by 1/3.      *)
compute_center(tri) == VecAdd(VecAdd(V0(tri), V1(tri)), V0(tri))

min_dim(tri, idx) == Min2(Min2(V0(tri)[idx], V1(tri)[idx]), V2(tri)[idx])
(* max_dim over the first two vertices only *)
Mutant_max_dim_two_vertices(tri, idx) == Max2(V0(tri)[idx], V1(tri)[idx])
max_dim(tri, idx) == Max2(Max2(V0(tri)[idx], V1(tri)[idx]), V2(tri)[idx])

(* is_on_the_right: the hit point is hp.num / hp.den with hp.den > 0.      *)
is_on_the_right(hp, from, to, normal) ==
    dot_product(normal,
        cross_product(VecSub(to, from), VecSub(hp.num, VecScale(from, hp.den)))) < 0

(* Ray::compute_point for t = tn / td, td > 0. *)
compute_point(r, tn, td) ==
    [num |-> VecAdd(VecScale(r.origin, td), VecScale(r.direction, tn)), den |-> td]

(* Triangle::compute_hit without the test of the edge v2 -> v0. *)
Mutant_Triangle_compute_hit_two_edges(tri, r) ==
    LET face_normal == compute_normal(tri)
        t_denom == dot_product(face_normal, r.direction)
        t_num == dot_product(face_normal, VecSub(V0(tri), r.origin))
        tn == IF t_denom > 0 THEN t_num ELSE -t_num
        td == IF t_denom > 0 THEN t_denom ELSE -t_denom
        t == Fin(tn * UNIT, td)
        hit_point == compute_point(r, tn, td)
    IN  IF NormalIsNaN(tri)
        THEN Some([t |-> NaN, normal |-> tri])
        ELSE IF t_denom = 0 THEN None
        ELSE IF Less(t, Fin(MIN_RAY_T, 1)) THEN None
        ELSE IF \/ is_on_the_right(hit_point, V0(tri), V1(tri), face_normal)
                \/ is_on_the_right(hit_point, V1(tri), V2(tri), face_normal)
        THEN None
        ELSE Some([t |-> t, normal |-> tri])

(* Triangle::compute_hit.  A Hit is [t, normal]; the interpolated normal   *)
(* is named by the triangle it is interpolated over.                       *)
Triangle_compute_hit(tri, r) ==
    LET face_normal == compute_normal(tri)
        t_denom == dot_product(face_normal, r.direction)
        t_num == dot_product(face_normal, VecSub(V0(tri), r.origin))
        tn == IF t_denom > 0 THEN t_num ELSE -t_num
        td == IF t_denom > 0 THEN t_denom ELSE -t_denom
        t == Fin(tn * UNIT, td)
        hit_point == compute_point(r, tn, td)
    IN  IF NormalIsNaN(tri)
        THEN \* every comparison with NaN is false: no early return is taken
             Some([t |-> NaN, normal |-> tri])
        ELSE IF t_denom = 0 THEN None
        ELSE IF Less(t, Fin(MIN_RAY_T, 1)) THEN None
        ELSE IF \/ is_on_the_right(hit_point, V0(tri), V1(tri), face_normal)
                \/ is_on_the_right(hit_point, V1(tri), V2(tri), face_normal)
                \/ is_on_the_right(hit_point, V2(tri), V0(tri), face_normal)
        THEN None
        ELSE Some([t |-> t, normal |-> tri])

(* Hit::inf *)
Hit_inf == [t |-> Inf, normal |-> <<0, 1, 0>>]

(* TriangleMesh::compute_slow_hit: the fold over self.triangles. *)
RECURSIVE SlowHitFold(_, _, _, _)
SlowHitFold(ts, r, i, closest_hit) ==
    IF i > Len(ts) THEN closest_hit
    ELSE LET h == Triangle_compute_hit(ts[i], r)
         IN  SlowHitFold(ts, r, i + 1,
                 IF IsSome(h) /\ Less(Unwrap(h).t, closest_hit.t)
                 THEN Unwrap(h) ELSE closest_hit)

compute_slow_hit(ts, r) ==
    LET closest_hit == SlowHitFold(ts, r, 1, Hit_inf)
    IN  IF Less(closest_hit.t, Inf) THEN Some(closest_hit) ELSE None

----------------------------------------------------------------------------
(* surface/aabb.rs.  Corners are kept in units of 0.00001.                 *)
AxisSlab(box, r, idx) ==
    LET a == DivByDirPlusEpsilon(box.min_corner[idx] - r.origin[idx] * UNIT, r.direction[idx])
        b == DivByDirPlusEpsilon(box.max_corner[idx] - r.origin[idx] * UNIT, r.direction[idx])
    IN  IF Greater(a, b) THEN [min |-> b, max |-> a] ELSE [min |-> a, max |-> b]

AxisAlignedBox_compute_hit(box, r) ==
    LET x == AxisSlab(box, r, 1)
        y == AxisSlab(box, r, 2)
        z == AxisSlab(box, r, 3)
        t_min_xy == IF Greater(y.min, x.min) THEN y.min ELSE x.min
        t_max_xy == IF Less(y.max, x.max) THEN y.max ELSE x.max
        t_min == IF Greater(z.min, t_min_xy) THEN z.min ELSE t_min_xy
        t_max == IF Less(z.max, t_max_xy) THEN z.max ELSE t_max_xy
        dummy == <<0, 1, 0>>
    IN  IF Greater(x.min, y.max) \/ Greater(y.min, x.max) THEN None
        ELSE IF Greater(t_min_xy, z.max) \/ Greater(z.min, t_max_xy) THEN None
        ELSE IF Less(t_min, Fin(MIN_RAY_T, 1))
             THEN IF Less(t_max, Fin(MIN_RAY_T, 1)) THEN None
                  ELSE Some([t |-> t_max, normal |-> dummy])
             ELSE Some([t |-> t_min, normal |-> dummy])

----------------------------------------------------------------------------
(* surface/mesh.rs: BoundingVolumeHierarchy.  The bounding sphere and the  *)
(* material are left out: the traversal reads neither.                     *)
BVH_DISPLAY_LEVEL == 115

RECURSIVE MinOver(_, _, _), MaxOver(_, _, _)
MinOver(ts, idx, i) ==
    IF i = Len(ts) THEN min_dim(ts[i], idx)
    ELSE Min2(min_dim(ts[i], idx), MinOver(ts, idx, i + 1))
MaxOver(ts, idx, i) ==
    IF i = Len(ts) THEN max_dim(ts[i], idx)
    ELSE Max2(max_dim(ts[i], idx), MaxOver(ts, idx, i + 1))

compute_bbox_from_triangles(ts) ==
    [ min_corner |-> [idx \in 1..3 |-> MinOver(ts, idx, 1) * UNIT - BBOX_PAD],
      max_corner |-> [idx \in 1..3 |-> MaxOver(ts, idx, 1) * UNIT + BBOX_PAD] ]

(* triangles.sort_by(centre x): a stable sort, here by insertion. *)
RECURSIVE InsertByCenterX(_, _)
InsertByCenterX(sorted, tri) ==
    IF sorted = <<>> THEN <<tri>>
    ELSE IF compute_center(tri)[1] < compute_center(Head(sorted))[1]
         THEN <<tri>> \o sorted
         ELSE <<Head(sorted)>> \o InsertByCenterX(Tail(sorted), tri)

RECURSIVE SortByCenterX(_)
SortByCenterX(ts) ==
    IF ts = <<>> THEN <<>>
    ELSE InsertByCenterX(SortByCenterX(SubSeq(ts, 1, Len(ts) - 1)), ts[Len(ts)])

(* A construction whose right half starts one triangle after the median:   *)
(* the triangle at the median is in neither half.                          *)
RECURSIVE Mutant_from_triangles_list_drops_median(_, _)
Mutant_from_triangles_list_drops_median(ts, bvh_level) ==
    IF Len(ts) = 1 THEN
        [ bbox |-> compute_bbox_from_triangles(ts),
          triangle_left |-> Some(ts[1]), triangle_right |-> None,
          bvh_left |-> None, bvh_right |-> None,
          bvh_level |-> bvh_level ]
    ELSE IF Len(ts) = 2 THEN
        [ bbox |-> compute_bbox_from_triangles(ts),
          triangle_left |-> Some(ts[1]), triangle_right |-> Some(ts[2]),
          bvh_left |-> None, bvh_right |-> None,
          bvh_level |-> bvh_level + 1 ]
    ELSE
        LET sorted == SortByCenterX(ts)
            half == Len(sorted) \div 2
            triangles_left == SubSeq(sorted, 1, half)
            triangles_right == SubSeq(sorted, half + 2, Len(sorted))
        IN  [ bbox |-> compute_bbox_from_triangles(ts),
              triangle_left |->
                  IF Len(triangles_left) = 1 THEN Some(triangles_left[1]) ELSE None,
              bvh_left |->
                  IF Len(triangles_left) = 1 THEN None
                  ELSE Some(Mutant_from_triangles_list_drops_median(triangles_left, bvh_level + 1)),
              triangle_right |->
                  IF Len(triangles_right) = 1 THEN Some(triangles_right[1]) ELSE None,
              bvh_right |->
                  IF Len(triangles_right) = 1 THEN None
                  ELSE Some(Mutant_from_triangles_list_drops_median(triangles_right, bvh_level + 1)),
              bvh_level |-> bvh_level ]

RECURSIVE from_triangles_list(_, _)
from_triangles_list(ts, bvh_level) ==
    IF Len(ts) = 1 THEN
        [ bbox |-> compute_bbox_from_triangles(ts),
          triangle_left |-> Some(ts[1]), triangle_right |-> None,
          bvh_left |-> None, bvh_right |-> None,
          bvh_level |-> bvh_level ]
    ELSE IF Len(ts) = 2 THEN
        [ bbox |-> compute_bbox_from_triangles(ts),
          triangle_left |-> Some(ts[1]), triangle_right |-> Some(ts[2]),
          bvh_left |-> None, bvh_right |-> None,
          bvh_level |-> bvh_level + 1 ]
    ELSE
        LET sorted == SortByCenterX(ts)
            half == Len(sorted) \div 2
            triangles_left == SubSeq(sorted, 1, half)
            triangles_right == SubSeq(sorted, half + 1, Len(sorted))
        IN  [ bbox |-> compute_bbox_from_triangles(ts),
              triangle_left |->
                  IF Len(triangles_left) = 1 THEN Some(triangles_left[1]) ELSE None,
              bvh_left |->
                  IF Len(triangles_left) = 1 THEN None
                  ELSE Some(from_triangles_list(triangles_left, bvh_level + 1)),
              triangle_right |->
                  IF Len(triangles_right) = 1 THEN Some(triangles_right[1]) ELSE None,
              bvh_right |->
                  IF Len(triangles_right) = 1 THEN None
                  ELSE Some(from_triangles_list(triangles_right, bvh_level + 1)),
              bvh_level |-> bvh_level ]

(* The closer of the two candidate hits, mesh.rs:373-384. *)
CloserHit(left_hit, right_hit) ==
    IF IsSome(left_hit)
    THEN IF IsSome(right_hit)
         THEN IF Less(Unwrap(left_hit).t, Unwrap(right_hit).t) THEN left_hit ELSE right_hit
         ELSE left_hit
    ELSE right_hit

(* One entry of hit_log: a bounding box test of the node at `path` (the    *)
(* sides, 0 left and 1 right, taken from the root), a triangle test of the *)
(* triangle on the side that ends `path`, or the return of a node.         *)
BoxTest(path, h) == [op |-> "bbox", path |-> path, hit |-> IsSome(h)]
TriangleTest(path, h) == [op |-> "triangle", path |-> path, hit |-> IsSome(h)]
NodeReturn(path, h) == [op |-> "return", path |-> path, hit |-> IsSome(h)]

(* A traversal that goes on into the children of a node whose bounding    *)
(* box the ray misses (the `?` after bbox.compute_hit left out).           *)
RECURSIVE Mutant_compute_hit_unpruned(_, _, _)
Mutant_compute_hit_unpruned(self, r, path) ==
    LET bv_hit == AxisAlignedBox_compute_hit(self.bbox, r)
        Side(triangle, child, side) ==
            IF IsSome(triangle)
            THEN LET h == Triangle_compute_hit(Unwrap(triangle), r)
                 IN  [hit |-> h, log |-> <<TriangleTest(Append(path, side), h)>>]
            ELSE IF IsSome(child)
            THEN Mutant_compute_hit_unpruned(Unwrap(child), r, Append(path, side))
            ELSE [hit |-> None, log |-> <<>>]
        left == Side(self.triangle_left, self.bvh_left, 0)
        right == Side(self.triangle_right, self.bvh_right, 1)
        result == CloserHit(left.hit, right.hit)
    IN  [hit |-> result,
         log |-> <<BoxTest(path, bv_hit)>> \o left.log \o right.log
                   \o <<NodeReturn(path, result)>>]

(* impl Surface for BoundingVolumeHierarchy: compute_hit, with the tests   *)
(* it performs.                                                            *)
RECURSIVE BoundingVolumeHierarchy_compute_hit(_, _, _)
BoundingVolumeHierarchy_compute_hit(self, r, path) ==
    LET bv_hit == AxisAlignedBox_compute_hit(self.bbox, r)
        Side(triangle, child, side) ==
            IF IsSome(triangle)
            THEN LET h == Triangle_compute_hit(Unwrap(triangle), r)
                 IN  [hit |-> h, log |-> <<TriangleTest(Append(path, side), h)>>]
            ELSE IF IsSome(child)
            THEN BoundingVolumeHierarchy_compute_hit(Unwrap(child), r, Append(path, side))
            ELSE [hit |-> None, log |-> <<>>]
        left == Side(self.triangle_left, self.bvh_left, 0)
        right == Side(self.triangle_right, self.bvh_right, 1)
        result == CloserHit(left.hit, right.hit)
    IN  IF ~IsSome(bv_hit)
        THEN [hit |-> None, log |-> <<BoxTest(path, bv_hit), NodeReturn(path, None)>>]
        ELSE IF self.bvh_level = BVH_DISPLAY_LEVEL
        THEN [hit |-> bv_hit, log |-> <<BoxTest(path, bv_hit), NodeReturn(path, bv_hit)>>]
        ELSE [hit |-> result,
              log |-> <<BoxTest(path, bv_hit)>> \o left.log \o right.log
                        \o <<NodeReturn(path, result)>>]

----------------------------------------------------------------------------
(* The mesh specification: a mesh is loaded, its BVH built, and one ray is *)
(* intersected with it both ways.                                          *)
TriangleLists == UNION { [1..n -> TriangleChoices] : n \in 1..MaxTriangles }
Rays == [origin : RayOrigins, direction : RayDirections]

MeshInit ==
    /\ triangles \in TriangleLists
    /\ ray \in Rays
    /\ bvh = None
    /\ bvh_hit = None
    /\ slow_hit = None
    /\ hit_log = <<>>
    /\ mesh_pc = {}
    /\ MatrixIdle /\ ReflIdle /\ RenderIdle /\ SceneIdle /\ RootsIdle /\ SurfaceIdle
    /\ CameraIdle /\ AppIdle /\ RastIdle

mesh_rest ==
    <<matrix_vars, refl_vars, render_vars, scene_vars, roots_vars, surface_vars,
      camera_vars, app_vars, rast_vars>>

(* TriangleMesh::from_obj, mesh.rs:198-199: the BVH of the triangle list. *)
FromObj ==
    /\ mesh_pc = {}
    /\ bvh' = Some(from_triangles_list(triangles, 0))
    /\ mesh_pc' = {"from_obj"}
    /\ UNCHANGED <<triangles, ray, bvh_hit, slow_hit, hit_log>>
    /\ UNCHANGED mesh_rest

(* impl Surface for TriangleMesh: compute_hit, the BVH branch. *)
MeshComputeHit ==
    /\ "from_obj" \in mesh_pc
    /\ "compute_hit" \notin mesh_pc
    /\ IsSome(bvh)
    /\ LET res == BoundingVolumeHierarchy_compute_hit(Unwrap(bvh), ray, <<>>)
       IN  /\ bvh_hit' = res.hit
           /\ hit_log' = res.log
    /\ mesh_pc' = mesh_pc \cup {"compute_hit"}
    /\ UNCHANGED <<triangles, ray, bvh, slow_hit>>
    /\ UNCHANGED mesh_rest

(* TriangleMesh::compute_slow_hit on the same mesh and ray. *)
MeshComputeSlowHit ==
    /\ "from_obj" \in mesh_pc
    /\ "compute_slow_hit" \notin mesh_pc
    /\ slow_hit' = compute_slow_hit(triangles, ray)
    /\ mesh_pc' = mesh_pc \cup {"compute_slow_hit"}
    /\ UNCHANGED <<triangles, ray, bvh, bvh_hit, hit_log>>
    /\ UNCHANGED mesh_rest

MeshNext == FromObj \/ MeshComputeHit \/ MeshComputeSlowHit

SpecMesh == MeshInit /\ [][MeshNext]_vars

----------------------------------------------------------------------------
(* Claims about the mesh. *)
BothCalled == {"compute_hit", "compute_slow_hit"} \subseteq mesh_pc

HitsAgree(a, b) ==
    \/ ~IsSome(a) /\ ~IsSome(b)
    \/ IsSome(a) /\ IsSome(b) /\ SameValue(Unwrap(a).t, Unwrap(b).t)

(* C1: for every non-empty triangle list and every ray, the BVH traversal  *)
(* and the brute-force loop agree: both report no hit, or both report a    *)
(* hit with the same t.                                                    *)
C1_BvhAgreesWithSlowHit == BothCalled => HitsAgree(bvh_hit, slow_hit)

(* The same statement over meshes without a zero-area triangle. *)
NoDegenerate == \A i \in 1..Len(triangles) : ~NormalIsNaN(triangles[i])
Aux_AgreeWithoutDegenerate == (BothCalled /\ NoDegenerate) => HitsAgree(bvh_hit, slow_hit)

(* Every node of a tree: the root and the nodes of its child subtrees. *)
RECURSIVE Nodes(_)
Nodes(node) ==
    {node}
    \cup (IF IsSome(node.bvh_left) THEN Nodes(Unwrap(node.bvh_left)) ELSE {})
    \cup (IF IsSome(node.bvh_right) THEN Nodes(Unwrap(node.bvh_right)) ELSE {})

ProperPrefix(p, q) == Len(p) < Len(q) /\ SubSeq(q, 1, Len(p)) = p

(* C6: when the ray misses the bounding box of a node, compute_hit on that *)
(* node returns no hit and tests no triangle and no child node of the      *)
(* node's subtree: its only test is the box test of the node itself.  This *)
(* holds of every node of the built tree, and of the traversal made.       *)
C6_MissedBoxPrunesSubtree ==
    /\ IsSome(bvh) =>
         \A node \in Nodes(Unwrap(bvh)) :
            ~IsSome(AxisAlignedBox_compute_hit(node.bbox, ray)) =>
                LET res == BoundingVolumeHierarchy_compute_hit(node, ray, <<>>)
                IN  /\ res.hit = None
                    /\ \A i \in 1..Len(res.log) : res.log[i].path = <<>>
                    /\ \A i \in 1..Len(res.log) : res.log[i].op # "triangle"
    /\ \A i \in 1..Len(hit_log) :
          (hit_log[i].op = "bbox" /\ ~hit_log[i].hit) =>
              /\ \A j \in 1..Len(hit_log) : ~ProperPrefix(hit_log[i].path, hit_log[j].path)
              /\ \E j \in 1..Len(hit_log) :
                    /\ hit_log[j].op = "return"
                    /\ hit_log[j].path = hit_log[i].path
                    /\ ~hit_log[j].hit

(* C6 witness: the traversal entered the root's box, reached a child node  *)
(* whose box the ray misses, and hit a triangle on the other side.         *)
C6_Witness ==
    /\ "compute_hit" \in mesh_pc
    /\ \E i \in 1..Len(hit_log) :
          hit_log[i].op = "bbox" /\ ~hit_log[i].hit /\ hit_log[i].path # <<>>
    /\ \E i \in 1..Len(hit_log) : hit_log[i].op = "triangle" /\ hit_log[i].hit
    /\ IsSome(bvh_hit)

----------------------------------------------------------------------------
(* matrix.rs.  The entries of the matrices met here are rationals: a       *)
(* vector is a triple of integer numerators over one denominator, a matrix *)
(* is three rows of numerators over one denominator.  A zero denominator   *)
(* stands for the non-finite entries that 1.0 / 0.0 produces.              *)
RVec(v, den) == [v |-> v, den |-> den]
RMat(rows, den) == [rows |-> rows, den |-> den]

RVecEq(a, b) ==
    /\ a.den # 0 /\ b.den # 0
    /\ \A i \in 1..3 : a.v[i] * b.den = b.v[i] * a.den

RMatEq(a, b) ==
    /\ a.den # 0 /\ b.den # 0
    /\ \A i \in 1..3 : \A j \in 1..3 : a.rows[i][j] * b.den = b.rows[i][j] * a.den

(* impl ops::Add<&Vec3> for &Vec3 *)
Vec3_add(a, b) == RVec(VecAdd(VecScale(a.v, b.den), VecScale(b.v, a.den)), a.den * b.den)

(* impl ops::Mul<f32> for &Vec3 *)
Vec3_mul_f32(a, scalar) == RVec(VecScale(a.v, scalar), a.den)

(* self[i][j] with the source's zero-based indices *)
At(self, i, j) == self.rows[i + 1][j + 1]

Mat3_identity == RMat(<< <<1, 0, 0>>, <<0, 1, 0>>, <<0, 0, 1>> >>, 1)

(* Mat3::det, as the rational [n / d] *)
Mat3_det(self) ==
    [n |-> At(self, 0, 0) * (At(self, 1, 1) * At(self, 2, 2) - At(self, 2, 1) * At(self, 1, 2))
         - At(self, 0, 1) * (At(self, 1, 0) * At(self, 2, 2) - At(self, 1, 2) * At(self, 2, 0))
         + At(self, 0, 2) * (At(self, 1, 0) * At(self, 2, 1) - At(self, 1, 1) * At(self, 2, 0)),
     d |-> self.den * self.den * self.den]

(* Mat3::compute_inverse with the sign of one entry flipped *)
Mutant_compute_inverse_sign(self) ==
    LET det == Mat3_det(self)
        invdet == [n |-> det.d, d |-> det.n]
    IN  RMat(<< << (At(self, 1, 1) * At(self, 2, 2) - At(self, 2, 1) * At(self, 1, 2)) * invdet.n,
                   (At(self, 0, 2) * At(self, 2, 1) - At(self, 0, 1) * At(self, 2, 2)) * invdet.n,
                   (At(self, 0, 1) * At(self, 1, 2) - At(self, 0, 2) * At(self, 1, 1)) * invdet.n >>,
                << (At(self, 1, 2) * At(self, 2, 0) - At(self, 1, 0) * At(self, 2, 2)) * invdet.n,
                   (At(self, 0, 0) * At(self, 2, 2) - At(self, 0, 2) * At(self, 2, 0)) * invdet.n,
                   (At(self, 0, 0) * At(self, 1, 2) - At(self, 1, 0) * At(self, 0, 2)) * invdet.n >>,
                << (At(self, 1, 0) * At(self, 2, 1) - At(self, 2, 0) * At(self, 1, 1)) * invdet.n,
                   (At(self, 2, 0) * At(self, 0, 1) - At(self, 0, 0) * At(self, 2, 1)) * invdet.n,
                   (At(self, 0, 0) * At(self, 1, 1) - At(self, 1, 0) * At(self, 0, 1)) * invdet.n >> >>,
             self.den * self.den * invdet.d)

(* Mat3::compute_inverse: invdet = 1.0 / det, each entry a 2x2 minor of    *)
(* self times invdet.                                                      *)
Mat3_compute_inverse(self) ==
    LET det == Mat3_det(self)
        invdet == [n |-> det.d, d |-> det.n]
    IN  RMat(<< << (At(self, 1, 1) * At(self, 2, 2) - At(self, 2, 1) * At(self, 1, 2)) * invdet.n,
                   (At(self, 0, 2) * At(self, 2, 1) - At(self, 0, 1) * At(self, 2, 2)) * invdet.n,
                   (At(self, 0, 1) * At(self, 1, 2) - At(self, 0, 2) * At(self, 1, 1)) * invdet.n >>,
                << (At(self, 1, 2) * At(self, 2, 0) - At(self, 1, 0) * At(self, 2, 2)) * invdet.n,
                   (At(self, 0, 0) * At(self, 2, 2) - At(self, 0, 2) * At(self, 2, 0)) * invdet.n,
                   (At(self, 1, 0) * At(self, 0, 2) - At(self, 0, 0) * At(self, 1, 2)) * invdet.n >>,
                << (At(self, 1, 0) * At(self, 2, 1) - At(self, 2, 0) * At(self, 1, 1)) * invdet.n,
                   (At(self, 2, 0) * At(self, 0, 1) - At(self, 0, 0) * At(self, 2, 1)) * invdet.n,
                   (At(self, 0, 0) * At(self, 1, 1) - At(self, 1, 0) * At(self, 0, 1)) * invdet.n >> >>,
             self.den * self.den * invdet.d)

(* Mat3::transpose *)
Mat3_transpose(self) ==
    RMat(<< <<At(self, 0, 0), At(self, 1, 0), At(self, 2, 0)>>,
            <<At(self, 0, 1), At(self, 1, 1), At(self, 2, 1)>>,
            <<At(self, 0, 2), At(self, 1, 2), At(self, 2, 2)>> >>, self.den)

(* impl ops::Mul<&Vec3> for &Mat3 and impl ops::Mul<&Point> for &Mat3 *)
Mat3_mul_Vec3(self, vec) ==
    RVec(<< dot_product(self.rows[1], vec.v),
            dot_product(self.rows[2], vec.v),
            dot_product(self.rows[3], vec.v) >>, self.den * vec.den)

(* impl ops::Mul<&Mat3> for &Mat3: self times each column of other, the    *)
(* three results taken as rows and transposed back.                        *)
Mat3_mul_Mat3(self, other) ==
    LET other_t == Mat3_transpose(other)
        row(i) == Mat3_mul_Vec3(self, RVec(other_t.rows[i], other_t.den))
    IN  Mat3_transpose(RMat(<< row(1).v, row(2).v, row(3).v >>, self.den * other.den))

(* struct Transformation *)
Transformation_new(transform_mat, translation) ==
    [transform_mat |-> transform_mat, translation |-> translation]

(* Transformation::compute_inverse *)
Transformation_compute_inverse(self) ==
    LET transform_inv == Mat3_compute_inverse(self.transform_mat)
        back_translation == Vec3_mul_f32(Mat3_mul_Vec3(transform_inv, self.translation), -1)
    IN  Transformation_new(transform_inv, back_translation)

(* impl ops::Mul<&Transformation> for &Transformation *)
Transformation_mul_Transformation(self, other) ==
    Transformation_new(
        Mat3_mul_Mat3(self.transform_mat, Mat3_transpose(other.transform_mat)),
        Vec3_add(Mat3_mul_Vec3(self.transform_mat, other.translation), self.translation))

(* impl ops::Mul<&Point> for &Transformation *)
Transformation_mul_Point(self, point) ==
    Vec3_add(Mat3_mul_Vec3(self.transform_mat, point), self.translation)

(* The transforms tried: every matrix with rows among MatRows as the first *)
(* operand (singular ones included), a rotation, a shear, a scale, a       *)
(* permutation and the identity as the second.                             *)
MatRows == { <<1, 0, 0>>, <<0, 1, 0>>, <<0, 0, 1>>, <<1, 1, 0>>, <<0, -1, 2>> }
MatsA == { RMat(<<r1, r2, r3>>, 1) : r1 \in MatRows, r2 \in MatRows, r3 \in MatRows }
MatsB == { Mat3_identity,
           RMat(<< <<0, -1, 0>>, <<1, 0, 0>>, <<0, 0, 1>> >>, 1),
           RMat(<< <<1, 2, 0>>, <<0, 1, 0>>, <<0, 0, 1>> >>, 1),
           RMat(<< <<2, 0, 0>>, <<0, 3, 0>>, <<0, 0, 1>> >>, 1),
           RMat(<< <<0, 0, 1>>, <<1, 0, 0>>, <<0, 1, 0>> >>, 1) }
Translations == { RVec(<<0, 0, 0>>, 1), RVec(<<1, -2, 3>>, 1) }
MatPoints == { RVec(<<1, 0, 0>>, 1), RVec(<<1, 2, 3>>, 1), RVec(<<0, 0, 0>>, 1) }

MatrixInit ==
    /\ mat_A \in { Transformation_new(m, t) : m \in MatsA, t \in Translations }
    /\ mat_B \in { Transformation_new(m, t) : m \in MatsB, t \in Translations }
    /\ mat_p \in MatPoints
    /\ mat_inv = None
    /\ mat_composed = None
    /\ mat_out = [round_trip |-> None, composed_p |-> None, sequential_p |-> None]
    /\ mat_pc = {}
    /\ MeshIdle /\ ReflIdle /\ RenderIdle /\ SceneIdle /\ RootsIdle /\ SurfaceIdle
    /\ CameraIdle /\ AppIdle /\ RastIdle

matrix_rest ==
    <<mesh_vars, refl_vars, render_vars, scene_vars, roots_vars, surface_vars,
      camera_vars, app_vars, rast_vars>>

(* let inv = mat_A.compute_inverse() *)
MatInverse ==
    /\ "compute_inverse" \notin mat_pc
    /\ mat_inv' = Some(Transformation_compute_inverse(mat_A))
    /\ mat_pc' = mat_pc \cup {"compute_inverse"}
    /\ UNCHANGED <<mat_A, mat_B, mat_p, mat_composed, mat_out>>
    /\ UNCHANGED matrix_rest

(* &inv * &(&mat_A * &mat_p) *)
MatRoundTrip ==
    /\ "compute_inverse" \in mat_pc
    /\ "round_trip" \notin mat_pc
    /\ mat_out' = [mat_out EXCEPT !.round_trip =
            Some(Transformation_mul_Point(Unwrap(mat_inv), Transformation_mul_Point(mat_A, mat_p)))]
    /\ mat_pc' = mat_pc \cup {"round_trip"}
    /\ UNCHANGED <<mat_A, mat_B, mat_p, mat_inv, mat_composed>>
    /\ UNCHANGED matrix_rest

(* let composed = &mat_A * &mat_B *)
MatCompose ==
    /\ "compose" \notin mat_pc
    /\ mat_composed' = Some(Transformation_mul_Transformation(mat_A, mat_B))
    /\ mat_pc' = mat_pc \cup {"compose"}
    /\ UNCHANGED <<mat_A, mat_B, mat_p, mat_inv, mat_out>>
    /\ UNCHANGED matrix_rest

(* &composed * &mat_p *)
MatApplyComposed ==
    /\ "compose" \in mat_pc
    /\ "apply_composed" \notin mat_pc
    /\ mat_out' = [mat_out EXCEPT !.composed_p =
            Some(Transformation_mul_Point(Unwrap(mat_composed), mat_p))]
    /\ mat_pc' = mat_pc \cup {"apply_composed"}
    /\ UNCHANGED <<mat_A, mat_B, mat_p, mat_inv, mat_composed>>
    /\ UNCHANGED matrix_rest

(* &mat_A * &(&mat_B * &mat_p) *)
MatApplySequential ==
    /\ "apply_sequential" \notin mat_pc
    /\ mat_out' = [mat_out EXCEPT !.sequential_p =
            Some(Transformation_mul_Point(mat_A, Transformation_mul_Point(mat_B, mat_p)))]
    /\ mat_pc' = mat_pc \cup {"apply_sequential"}
    /\ UNCHANGED <<mat_A, mat_B, mat_p, mat_inv, mat_composed>>
    /\ UNCHANGED matrix_rest

MatrixNext ==
    MatInverse \/ MatRoundTrip \/ MatCompose \/ MatApplyComposed \/ MatApplySequential

SpecMatrix == MatrixInit /\ [][MatrixNext]_vars

Invertible(t) == Mat3_det(t.transform_mat).n # 0

(* C8: for every invertible transform T and point p, compute_inverse(T)    *)
(* applied to T applied to p gives back p, and the matrix returned by      *)
(* Mat3::compute_inverse times the original matrix is the identity.        *)
C8_InverseUndoesTransform ==
    Invertible(mat_A) =>
        /\ "round_trip" \in mat_pc => RVecEq(Unwrap(mat_out.round_trip), mat_p)
        /\ "compute_inverse" \in mat_pc =>
              RMatEq(Mat3_mul_Mat3(Unwrap(mat_inv).transform_mat, mat_A.transform_mat),
                     Mat3_identity)

(* C8 witness: the round trip was made through a transform with a non-zero *)
(* translation whose matrix is not symmetric and has determinant other     *)
(* than 1 or -1, from a point other than the origin.                       *)
C8_Witness ==
    /\ "round_trip" \in mat_pc
    /\ Mat3_det(mat_A.transform_mat).n \notin {-1, 0, 1}
    /\ mat_A.transform_mat # Mat3_transpose(mat_A.transform_mat)
    /\ mat_A.translation.v # <<0, 0, 0>>
    /\ mat_p.v # <<0, 0, 0>>
    /\ RVecEq(Unwrap(mat_out.round_trip), mat_p)

(* C9: for all transforms A and B and every point p, the composed          *)
(* transform &A * &B applied to p equals A applied to (B applied to p).    *)
C9_ComposedAppliesBThenA ==
    {"apply_composed", "apply_sequential"} \subseteq mat_pc =>
        RVecEq(Unwrap(mat_out.composed_p), Unwrap(mat_out.sequential_p))

(* The same statement over second operands whose matrix is symmetric. *)
Aux_ComposedWhenSymmetric ==
    ({"apply_composed", "apply_sequential"} \subseteq mat_pc
        /\ mat_B.transform_mat = Mat3_transpose(mat_B.transform_mat)
        /\ Invertible(mat_A)) =>
        RVecEq(Unwrap(mat_out.composed_p), Unwrap(mat_out.sequential_p))

----------------------------------------------------------------------------
(* scene.rs, the reflection direction.  Directions and normals are         *)
(* rational vectors whose length is rational too, so that normalize() is   *)
(* exact.                                                                  *)
MaxNorm == 7

(* f32::sqrt on the perfect squares met here *)
Sqrt(n) == CHOOSE k \in 0..MaxNorm : k * k = n

(* Vec3::norm, as the rational [n / d] *)
Vec3_norm(self) == [n |-> Sqrt(dot_product(self.v, self.v)), d |-> self.den]

(* Vec3::normalize *)
Vec3_normalize(self) ==
    LET norm == Vec3_norm(self)
    IN  RVec(VecScale(self.v, norm.d), self.den * norm.n)

(* Vec3::dot_product, as the rational [n / d] *)
Vec3_dot_product(self, other) ==
    [n |-> dot_product(self.v, other.v), d |-> self.den * other.den]

(* &Vec3 * f32 with a rational scale *)
Vec3_mul(self, scale) == RVec(VecScale(self.v, scale.n), self.den * scale.d)

(* The same rational vector in lowest terms. *)
Abs(n) == IF n < 0 THEN -n ELSE n
RECURSIVE Gcd(_, _)
Gcd(a, b) == IF b = 0 THEN Abs(a) ELSE Gcd(b, a % Abs(b))
Reduced(a) ==
    LET g == Gcd(Gcd(a.v[1], a.v[2]), Gcd(a.v[3], a.den))
    IN  IF g = 0 THEN a
        ELSE RVec(<<a.v[1] \div g, a.v[2] \div g, a.v[3] \div g>>, a.den \div g)

(* compute_ray_color, the direction of the reflected ray *)
reflection_dir(ray_direction, hit_normal) ==
    LET ray_dir_normalized == Reduced(Vec3_normalize(ray_direction))
        cos == Vec3_dot_product(ray_dir_normalized, hit_normal)
    IN  Reduced(Vec3_add(ray_direction,
                         Vec3_mul(hit_normal, [n |-> -2 * cos.n, d |-> cos.d])))

ReflDirections ==
    { RVec(<<0, -1, 0>>, 1), RVec(<<0, 0, -1>>, 1), RVec(<<1, 0, 0>>, 1),
      RVec(<<3, -4, 0>>, 5), RVec(<<1, -2, 2>>, 3), RVec(<<0, -3, -4>>, 5),
      RVec(<<-2, -1, -2>>, 3),
      RVec(<<3, -4, 0>>, 1), RVec(<<0, -2, 0>>, 1), RVec(<<1, -2, 2>>, 1),
      RVec(<<0, -3, -4>>, 1), RVec(<<4, 0, -3>>, 1), RVec(<<-2, -1, -2>>, 1),
      RVec(<<3, -4, 0>>, 10), RVec(<<2, -4, 4>>, 1) }
ReflNormals ==
    { RVec(<<0, 1, 0>>, 1), RVec(<<0, 0, 1>>, 1), RVec(<<-1, 0, 0>>, 1),
      RVec(<<3, 4, 0>>, 5), RVec(<<0, 4, 3>>, 5), RVec(<<0, -1, 0>>, 1),
      RVec(<<1, 2, 2>>, 3) }

ReflInit ==
    /\ refl_direction \in ReflDirections
    /\ refl_normal \in ReflNormals
    /\ refl_out = None
    /\ MeshIdle /\ MatrixIdle /\ RenderIdle /\ SceneIdle /\ RootsIdle /\ SurfaceIdle
    /\ CameraIdle /\ AppIdle /\ RastIdle

refl_rest ==
    <<mesh_vars, matrix_vars, render_vars, scene_vars, roots_vars, surface_vars,
      camera_vars, app_vars, rast_vars>>

(* compute_ray_color with reflection_glossiness = 0: the one reflected ray *)
(* takes reflection_dir as its direction.                                  *)
Reflect ==
    /\ refl_out = None
    /\ refl_out' = Some(reflection_dir(refl_direction, refl_normal))
    /\ UNCHANGED <<refl_direction, refl_normal>>
    /\ UNCHANGED refl_rest

ReflNext == Reflect

SpecReflect == ReflInit /\ [][ReflNext]_vars

(* The cosines of the angles that a and b make with n are equal: equal in  *)
(* sign, and equal in square after cross-multiplying by the squared norms. *)
SameCosine(a, b, n) ==
    /\ Sign(dot_product(a.v, n.v)) = Sign(dot_product(b.v, n.v))
    /\ dot_product(a.v, n.v) * dot_product(a.v, n.v) * dot_product(b.v, b.v)
         = dot_product(b.v, n.v) * dot_product(b.v, n.v) * dot_product(a.v, a.v)

UnitLength(a) == dot_product(a.v, a.v) = a.den * a.den

(* C10: with reflection_glossiness = 0 the angle between the incoming      *)
(* direction and the normal equals the angle between the reflected         *)
(* direction and the normal, for incoming directions of any length; the    *)
(* incoming direction is taken reversed (pointing away from the surface,   *)
(* as the law of reflection measures it) or as it is.                      *)
C10_LawOfReflection ==
    IsSome(refl_out) =>
        \/ SameCosine(Vec3_mul_f32(refl_direction, -1), Unwrap(refl_out), refl_normal)
        \/ SameCosine(refl_direction, Unwrap(refl_out), refl_normal)

(* The same statement over incoming directions of unit length. *)
Aux_LawForUnitDirections ==
    (IsSome(refl_out) /\ UnitLength(refl_direction)) =>
        SameCosine(Vec3_mul_f32(refl_direction, -1), Unwrap(refl_out), refl_normal)

----------------------------------------------------------------------------
(* ray_tracer.rs, render_state: the pixels are computed by the workers of  *)
(* a parallel iterator over the list of (row, column) pairs and collected  *)
(* into a vector in the order of the list; then the image is filled from   *)
(* the vector.                                                             *)
WIDTH == 3
HEIGHT == 2
Workers == {"w1", "w2"}

(* iproduct!(0..WIDTH, 0..HEIGHT): the column index varies slowest *)
Mutant_RenderItems_column_major ==
    [k \in 1..(HEIGHT * WIDTH) |-> <<(k - 1) % HEIGHT, (k - 1) \div HEIGHT>>]

(* iproduct!(0..HEIGHT, 0..WIDTH).collect::<Vec<(u32, u32)>>() *)
RenderItems ==
    [k \in 1..(HEIGHT * WIDTH) |-> <<(k - 1) \div WIDTH, (k - 1) % WIDTH>>]

(* The arguments of the call the closure makes for the item p *)
PixelArgs(p) == <<p[2], HEIGHT - p[1]>>

(* The colour that scene.compute_pixel(i, j, &state.opts) returned *)
PixelColor(i, j) == [i |-> i, j |-> j]

CallArgs == (0..(WIDTH - 1)) \X (0..HEIGHT)

RenderInit ==
    /\ rnd_pc = "start"
    /\ rnd_taken = {}
    /\ rnd_worker = [w \in Workers |-> None]
    /\ rnd_pixels = <<>>
    /\ rnd_calls = [a \in CallArgs |-> 0]
    /\ rnd_writes = <<>>
    /\ rnd_img = None
    /\ MeshIdle /\ MatrixIdle /\ ReflIdle /\ SceneIdle /\ RootsIdle /\ SurfaceIdle
    /\ CameraIdle /\ AppIdle /\ RastIdle

render_rest ==
    <<mesh_vars, matrix_vars, refl_vars, scene_vars, roots_vars, surface_vars,
      camera_vars, app_vars, rast_vars>>

(* The item list is built and the parallel map starts. *)
RenderStart ==
    /\ rnd_pc = "start"
    /\ rnd_pc' = "par_iter"
    /\ rnd_pixels' = [k \in 1..Len(RenderItems) |-> None]
    /\ rnd_writes' = [k \in 1..Len(RenderItems) |-> 0]
    /\ UNCHANGED <<rnd_taken, rnd_worker, rnd_calls, rnd_img>>
    /\ UNCHANGED render_rest

(* A free worker is handed an item no worker had yet and runs the closure  *)
(* on it.                                                                  *)
WorkerMap(w) ==
    /\ rnd_pc = "par_iter"
    /\ rnd_worker[w] = None
    /\ \E k \in (1..Len(RenderItems)) \ rnd_taken :
          LET args == PixelArgs(RenderItems[k])
          IN  /\ rnd_taken' = rnd_taken \cup {k}
              /\ rnd_calls' = [rnd_calls EXCEPT ![args] = @ + 1]
              /\ rnd_worker' = [rnd_worker EXCEPT ![w] =
                     Some([item |-> k, color |-> PixelColor(args[1], args[2])])]
    /\ UNCHANGED <<rnd_pc, rnd_pixels, rnd_writes, rnd_img>>
    /\ UNCHANGED render_rest

(* The worker's result goes to the place of its item in the collected      *)
(* vector.                                                                 *)
WorkerCollect(w) ==
    /\ rnd_pc = "par_iter"
    /\ IsSome(rnd_worker[w])
    /\ LET done == Unwrap(rnd_worker[w])
       IN  /\ rnd_pixels' = [rnd_pixels EXCEPT ![done.item] = Some(done.color)]
           /\ rnd_writes' = [rnd_writes EXCEPT ![done.item] = @ + 1]
    /\ rnd_worker' = [rnd_worker EXCEPT ![w] = None]
    /\ UNCHANGED <<rnd_pc, rnd_taken, rnd_calls, rnd_img>>
    /\ UNCHANGED render_rest

(* After the parallel map: for y, for x: img.put_pixel(x, y, pixels[WIDTH * y + x]) *)
PutPixels ==
    /\ rnd_pc = "par_iter"
    /\ rnd_taken = 1..Len(RenderItems)
    /\ \A w \in Workers : rnd_worker[w] = None
    /\ rnd_img' = Some([xy \in (0..(WIDTH - 1)) \X (0..(HEIGHT - 1)) |->
                          Unwrap(rnd_pixels[WIDTH * xy[2] + xy[1] + 1])])
    /\ rnd_pc' = "done"
    /\ UNCHANGED <<rnd_taken, rnd_worker, rnd_pixels, rnd_calls, rnd_writes>>
    /\ UNCHANGED render_rest

RenderNext ==
    \/ RenderStart
    \/ \E w \in Workers : WorkerMap(w)
    \/ \E w \in Workers : WorkerCollect(w)
    \/ PutPixels

SpecRender == RenderInit /\ [][RenderNext]_vars

OutputPixels == (0..(WIDTH - 1)) \X (0..(HEIGHT - 1))
SlotOf(xy) == WIDTH * xy[2] + xy[1] + 1

(* C4: compute_pixel runs at most once for any pixel and no slot is        *)
(* written twice; a written slot WIDTH*y + x holds the colour of the call  *)
(* made for column x of image row y, compute_pixel(x, HEIGHT - y); and     *)
(* once the parallel map is over every output pixel has had exactly one    *)
(* call and one write, in every order the workers take the items in.       *)
C4_EachPixelOnceInItsSlot ==
    rnd_pc \in {"par_iter", "done"} =>
        /\ \A a \in CallArgs : rnd_calls[a] <= 1
        /\ \A xy \in OutputPixels :
              /\ rnd_writes[SlotOf(xy)] <= 1
              /\ IsSome(rnd_pixels[SlotOf(xy)]) =>
                    /\ rnd_pixels[SlotOf(xy)] = Some(PixelColor(xy[1], HEIGHT - xy[2]))
                    /\ rnd_calls[<<xy[1], HEIGHT - xy[2]>>] = 1
                    /\ rnd_writes[SlotOf(xy)] = 1
        /\ rnd_pc = "done" =>
              \A xy \in OutputPixels :
                 /\ IsSome(rnd_pixels[SlotOf(xy)])
                 /\ Unwrap(rnd_img)[xy] = PixelColor(xy[1], HEIGHT - xy[2])

(* C4 witness: the workers took the items out of order (the last slot is   *)
(* written while the first is not, and both workers hold a result).        *)
C4_Witness ==
    /\ rnd_pc = "par_iter"
    /\ IsSome(rnd_pixels[WIDTH * HEIGHT])
    /\ ~IsSome(rnd_pixels[1])
    /\ \A w \in Workers : IsSome(rnd_worker[w])

----------------------------------------------------------------------------
(* basics.rs, Color.  A channel is an exact rational [n / d] in lowest     *)
(* terms with d > 0.                                                       *)
Q(n, d) ==
    LET g == Gcd(n, d)
        sgn == IF d < 0 THEN -1 ELSE 1
    IN  [n |-> sgn * (n \div g), d |-> sgn * (d \div g)]
QAdd(a, b) == Q(a.n * b.d + b.n * a.d, a.d * b.d)
QMul(a, b) == Q(a.n * b.n, a.d * b.d)
QLess(a, b) == a.n * b.d < b.n * a.d
QZero == Q(0, 1)
QOne == Q(1, 1)
(* f32::max and f32::min *)
QMax(a, b) == IF QLess(a, b) THEN b ELSE a
QMin(a, b) == IF QLess(b, a) THEN b ELSE a
QNeg(a) == Q(-a.n, a.d)
QSub(a, b) == QAdd(a, QNeg(b))
QDiv(a, b) == Q(a.n * b.d, a.d * b.n)
QInt(k) == Q(k, 1)

(* basics.rs, Point and Vec3 with rational components *)
QV(v) == <<QInt(v[1]), QInt(v[2]), QInt(v[3])>>
QVSub(p, q) == <<QSub(p[1], q[1]), QSub(p[2], q[2]), QSub(p[3], q[3])>>
QVAdd(p, q) == <<QAdd(p[1], q[1]), QAdd(p[2], q[2]), QAdd(p[3], q[3])>>
QVScale(v, k) == <<QMul(v[1], k), QMul(v[2], k), QMul(v[3], k)>>

(* struct Color, built as a struct literal (no clamp) *)
Color(r, g, b) == [r |-> r, g |-> g, b |-> b]

(* Color::clamp without the upper limit *)
Mutant_clamp_no_min(self) ==
    Color(QMax(self.r, QZero), QMax(self.g, QZero), QMax(self.b, QZero))

(* Color::clamp *)
Color_clamp(self) ==
    Color(QMin(QMax(self.r, QZero), QOne),
          QMin(QMax(self.g, QZero), QOne),
          QMin(QMax(self.b, QZero), QOne))

(* Color::zero *)
Color_zero == Color_clamp(Color(QZero, QZero, QZero))

(* Color::add_no_clamp *)
Color_add_no_clamp(self, other) ==
    Color(QAdd(self.r, other.r), QAdd(self.g, other.g), QAdd(self.b, other.b))

(* impl ops::Mul<f32> for &Color *)
Color_mul(self, strength) ==
    Color_clamp(Color(QMul(self.r, strength), QMul(self.g, strength), QMul(self.b, strength)))

(* impl ops::Add<&Color> for &Color *)
Color_add(self, other) == Color_clamp(Color_add_no_clamp(self, other))

(* struct VisualData *)
VisualData(color, specular_strength, reflection_strength, reflection_glossiness) ==
    [color |-> color, specular_strength |-> specular_strength,
     reflection_strength |-> reflection_strength,
     reflection_glossiness |-> reflection_glossiness]

(* VisualData::from_color *)
VisualData_from_color(color) == VisualData(color, QZero, QZero, QZero)

(* VisualData::zero *)
VisualData_zero == VisualData_from_color(Color_zero)

----------------------------------------------------------------------------
(* ray_tracer.rs: the scenes rendered, and scenes built from the public    *)
(* fields of Scene.                                                        *)
(* setup_lights: the light's corner and the two sides of its rectangle *)
Light(color) ==
    [color |-> color,
     location |-> << Q(-1, 10), QInt(10), Q(-1, 10) >>,
     right |-> << Q(1, 5), QZero, QZero >>,
     top |-> << QZero, QZero, Q(1, 5) >>]

(* A light with zero extents *)
PointLight(color) == [Light(color) EXCEPT !.right = QV(<<0, 0, 0>>), !.top = QV(<<0, 0, 0>>)]

Scene(objects, lights, background_color) ==
    [objects |-> objects, lights |-> lights, background_color |-> background_color,
     ambient_strength |-> Q(7, 10), diffuse_strength |-> Q(1, 2)]

(* State::compute_scene with selected_scene_idx = 0: setup_plane,          *)
(* setup_simple_scene_objects (sphere_a, sphere_b) and setup_lights.       *)
SimpleScene(render_options) ==
    Scene(<< VisualData_from_color(Color(Q(1, 2), Q(1, 2), Q(1, 2))),
             VisualData_from_color(Color(QZero, QZero, QOne)),
             VisualData(Color(QOne, QZero, QZero), Q(1, 2), Q(1, 2),
                        render_options.reflection_glossiness) >>,
          << Light(Color(QOne, QOne, QOne)) >>,
          Color(Q(204, 1000), Q(596, 1000), Q(86, 100)))

(* The simple scene with a second, yellow point light and a shiny plane. *)
TwoLightScene(render_options) ==
    [SimpleScene(render_options) EXCEPT
        !.objects[1] = VisualData(Color(Q(1, 2), Q(1, 2), Q(1, 2)), Q(1, 2), QZero, QZero),
        !.lights = << Light(Color(QOne, QOne, QOne)), PointLight(Color(Q(1, 2), Q(1, 2), QZero)) >>]

(* The simple scene without lights. *)
NoLightScene(render_options) == [SimpleScene(render_options) EXCEPT !.lights = << >>]

(* A scene whose colours are struct literals outside [0, 1]. *)
BrightScene(render_options) ==
    Scene(<< VisualData_from_color(Color(Q(3, 2), Q(1, 2), Q(-1, 2))),
             VisualData(Color(QZero, Q(2, 1), QOne), QOne, QOne, QZero),
             VisualData(Color(QOne, QOne, QZero), Q(2, 1), Q(3, 2),
                        render_options.reflection_glossiness) >>,
          << Light(Color(Q(2, 1), QOne, Q(-1, 1))), Light(Color(QOne, Q(3, 1), QOne)) >>,
          Color(Q(3, 2), Q(-1, 2), QOne))

Scenes(render_options) ==
    { SimpleScene(render_options), TwoLightScene(render_options),
      NoLightScene(render_options), BrightScene(render_options) }

(* RenderOptions: the fields compute_pixel and the scene setup read.  Key  *)
(* P switches reflection_glossiness between 0 and 0.2.                     *)
RenderOptionsSet ==
    [use_supersampling : BOOLEAN, use_soft_shadows : BOOLEAN,
     reflection_glossiness : {QZero, Q(1, 5)}]

(* RenderOptions::defaults *)
RenderOptions_defaults ==
    [use_supersampling |-> FALSE, use_soft_shadows |-> FALSE, reflection_glossiness |-> QZero]

----------------------------------------------------------------------------
(* What the surfaces answer.  A world gives, for each kind of ray, the     *)
(* Option<Hit> of each of the three objects (plane, sphere_a, sphere_b),   *)
(* and for each light what shading reads at the hit point.  It is a        *)
(* function of the ray alone: the same ray gets the same answers.          *)
H(t) == Some([t |-> Fin(t, 1), normal |-> <<0, 1, 0>>])
NoObject == <<None, None, None>>
PlaneOnly == <<H(4), None, None>>
SphereAFront == <<H(4), H(1), None>>
SphereBFront == <<H(4), None, H(2)>>
SphereBOnly == <<None, None, H(1)>>
(* An object that holds a zero-area triangle answers Some(Hit {t: NaN}). *)
NaNHit == Some([t |-> NaN, normal |-> <<0, 1, 0>>])
DegenerateOnly == <<None, NaNHit, None>>
DegenerateAndPlane == <<H(4), NaNHit, None>>
DegenerateInFront == <<H(4), NaNHit, H(2)>>
PlaneInFront == <<H(1), None, H(3)>>

(* At a light: the shadow ray's hits, the distance to the light, the       *)
(* cosine between the normal and the light direction and the specular      *)
(* factor max(0, normal . half_vector)^64.                                 *)
AtLight(blockers, normal_dot_light, spec_pow) ==
    [blockers |-> blockers, distance_to_light |-> Fin(3, 1),
     normal_dot_light |-> normal_dot_light, spec_pow |-> spec_pow]

Unblocked == AtLight(NoObject, Q(1, 2), Q(1, 2))
BlockedBySphereA == AtLight(<<None, H(2), None>>, Q(1, 2), Q(1, 2))
BehindTheLight == AtLight(<<H(4), H(3), None>>, QOne, QZero)
FacingAway == AtLight(NoObject, Q(-1, 2), QZero)

World(cam, refl_exact, refl_off, nominal, shifted) ==
    [cam |-> cam, refl_exact |-> refl_exact, refl_off |-> refl_off,
     nominal |-> nominal, shifted |-> shifted]

Worlds ==
    { World(<<NoObject, NoObject>>, NoObject, NoObject,
            <<Unblocked, Unblocked>>, <<Unblocked, Unblocked>>),
      World(<<PlaneOnly, PlaneOnly>>, NoObject, NoObject,
            <<Unblocked, BlockedBySphereA>>, <<FacingAway, Unblocked>>),
      World(<<SphereBFront, SphereBFront>>, PlaneOnly, NoObject,
            <<BlockedBySphereA, Unblocked>>, <<Unblocked, BlockedBySphereA>>),
      World(<<SphereBFront, PlaneOnly>>, SphereAFront, SphereBOnly,
            <<BehindTheLight, Unblocked>>, <<Unblocked, Unblocked>>),
      World(<<SphereAFront, NoObject>>, SphereBOnly, PlaneOnly,
            <<Unblocked, FacingAway>>, <<BlockedBySphereA, BehindTheLight>>),
      World(<<DegenerateInFront, DegenerateOnly>>, DegenerateOnly, PlaneInFront,
            <<AtLight(DegenerateOnly, Q(1, 2), Q(1, 2)), Unblocked>>,
            <<Unblocked, AtLight(DegenerateAndPlane, QOne, QZero)>>) }

----------------------------------------------------------------------------
(* scene.rs.  The random generator is a stream of f32 values in [0, 1),    *)
(* here 0, 0.5 and 0.75 (in quarters), unknown to the program:             *)
(* thread_rng() picks the stream, each gen() takes its next value.         *)
NUM_DIST_RT_SAMPLES == 2
SOURCE_NUM_DIST_RT_SAMPLES == 5
NUM_GLOSSY_REFL_RAYS == 2
LIGHT_SHIFTS_LEN == 25
MaxInvocations == 2

RngStreams == { <<0>>, <<2>>, <<0, 2>>, <<2, 0, 0>>, <<3>> }

(* The value of the k-th next rng.gen::<f32>(), k = 0 for the next one *)
Gen(rng, k) == Q(rng.stream[((rng.pos + k) % Len(rng.stream)) + 1], 4)
Advance(rng, k) == [rng EXCEPT !.pos = (rng.pos + k) % Len(rng.stream)]

(* A ray, by what tells it from the other rays of its kind: a camera ray   *)
(* by its sample position within the pixel, a reflection ray by the        *)
(* weights of its jitter.                                                  *)
Ray(kind, u, v) == [kind |-> kind, u |-> u, v |-> v]

(* struct RayOptions, the fields compute_ray_color reads *)
RayOptions(depth, light_shift) == [depth |-> depth, light_shift |-> light_shift]

(* RayOptions::increment_depth *)
RayOptions_increment_depth(ray_options) == [ray_options EXCEPT !.depth = @ + 1]

(* iproduct!(0..NUM_DIST_RT_SAMPLES, 0..NUM_DIST_RT_SAMPLES), item m (from 1) *)
GridCell(m) == <<(m - 1) \div NUM_DIST_RT_SAMPLES, (m - 1) % NUM_DIST_RT_SAMPLES>>
GridSize == NUM_DIST_RT_SAMPLES * NUM_DIST_RT_SAMPLES

(* compute_pixel with the jittered grid of rays taken whatever             *)
(* use_supersampling says                                                  *)
Mutant_PrimaryRays_always_jittered(render_options, rng) ==
    [m \in 1..GridSize |->
        Ray("cam",
            QAdd(Q(GridCell(m)[1], NUM_DIST_RT_SAMPLES), Gen(rng, 2 * (m - 1))),
            QAdd(Q(GridCell(m)[2], NUM_DIST_RT_SAMPLES), Gen(rng, 2 * (m - 1) + 1)))]

(* compute_pixel, the primary rays: one through the pixel centre, or one   *)
(* per grid cell at p/N plus a random offset, two draws per ray.           *)
PrimaryRays(render_options, rng) ==
    IF render_options.use_supersampling
    THEN [m \in 1..GridSize |->
            Ray("cam",
                QAdd(Q(GridCell(m)[1], NUM_DIST_RT_SAMPLES), Gen(rng, 2 * (m - 1))),
                QAdd(Q(GridCell(m)[2], NUM_DIST_RT_SAMPLES), Gen(rng, 2 * (m - 1) + 1)))]
    ELSE << Ray("cam", Q(1, 2), Q(1, 2)) >>
PrimaryRayDraws(render_options) ==
    IF render_options.use_supersampling THEN 2 * GridSize ELSE 0

(* light_shifts.shuffle(&mut rng): for i from the last index down to 1,    *)
(* swap item i with item gen_range(0, i + 1).  Indices from 0, as there.   *)
RECURSIVE Shuffle(_, _, _)
Shuffle(list, rng, i) ==
    IF i < 1 THEN list
    ELSE LET g == Gen(rng, 0)
             j == (g.n * (i + 1)) \div g.d
             swapped == [list EXCEPT ![i + 1] = list[j + 1], ![j + 1] = list[i + 1]]
         IN  Shuffle(swapped, Advance(rng, 1), i - 1)

(* The light shifts with `vec![None; 1]` for the case without soft shadows *)
Mutant_LightShifts_single_none(render_options, rng) ==
    IF render_options.use_soft_shadows
    THEN Shuffle([m \in 1..GridSize |->
                    Some(<< QAdd(Q(GridCell(m)[1], NUM_DIST_RT_SAMPLES), Gen(rng, 2 * (m - 1))),
                            QAdd(Q(GridCell(m)[2], NUM_DIST_RT_SAMPLES), Gen(rng, 2 * (m - 1) + 1)) >>)],
                 Advance(rng, 2 * GridSize), GridSize - 1)
    ELSE << None >>

(* compute_pixel, the light shifts: with soft shadows one per grid cell at *)
(* p/N plus a random offset, shuffled; otherwise 25 times None.            *)
LightShifts(render_options, rng) ==
    IF render_options.use_soft_shadows
    THEN Shuffle([m \in 1..GridSize |->
                    Some(<< QAdd(Q(GridCell(m)[1], NUM_DIST_RT_SAMPLES), Gen(rng, 2 * (m - 1))),
                            QAdd(Q(GridCell(m)[2], NUM_DIST_RT_SAMPLES), Gen(rng, 2 * (m - 1) + 1)) >>)],
                 Advance(rng, 2 * GridSize), GridSize - 1)
    ELSE [m \in 1..LIGHT_SHIFTS_LEN |-> None]
LightShiftDraws(render_options) ==
    IF render_options.use_soft_shadows THEN 2 * GridSize + (GridSize - 1) ELSE 0

(* The hits of the scene's objects on a ray: object.compute_hit(ray, ..)   *)
(* for each object in turn.                                                *)
Surface_compute_hit(world, r) ==
    IF r.kind = "cam"
    THEN (IF QLess(QAdd(r.u, r.v), QOne) THEN world.cam[1] ELSE world.cam[2])
    ELSE (IF r.u = QZero /\ r.v = QZero THEN world.refl_exact ELSE world.refl_off)

(* The loop of lines 48-55 without the comparison of line 50: the last    *)
(* object that answers a hit wins.                                         *)
RECURSIVE Mutant_ClosestHit_last_hit(_, _, _, _, _)
Mutant_ClosestHit_last_hit(objects, hits, k, hit, vis) ==
    IF k > Len(objects) THEN [hit |-> hit, vis |-> vis]
    ELSE IF IsSome(hits[k])
         THEN Mutant_ClosestHit_last_hit(objects, hits, k + 1, Unwrap(hits[k]), objects[k])
         ELSE Mutant_ClosestHit_last_hit(objects, hits, k + 1, hit, vis)

(* compute_ray_color, lines 45-55: the closest hit and its visual data *)
RECURSIVE ClosestHit(_, _, _, _, _)
ClosestHit(objects, hits, k, hit, vis) ==
    IF k > Len(objects) THEN [hit |-> hit, vis |-> vis]
    ELSE IF IsSome(hits[k]) /\ Less(Unwrap(hits[k]).t, hit.t)
         THEN ClosestHit(objects, hits, k + 1, Unwrap(hits[k]), objects[k])
         ELSE ClosestHit(objects, hits, k + 1, hit, vis)

(* A compute_ray_color call: its arguments and its local variables, and   *)
(* the number of times line 146 has added a reflection colour so far.      *)
Frame(r, ray_options) ==
    [ray |-> r, ray_options |-> ray_options, pc |-> "objects",
     hit |-> Hit_inf, vis |-> VisualData_zero, color |-> Color_zero,
     light |-> 0, light_location |-> None, is_in_shadow |-> FALSE,
     diffuse_light_color |-> None, spec_color |-> None,
     reflection_rays |-> << >>, r |-> 0, reflection_color |-> Color_zero,
     reflection_adds |-> 0]

Top == sc_stack[Len(sc_stack)]
SetTop(f) == [sc_stack EXCEPT ![Len(sc_stack)] = f]

SceneInit ==
    /\ sc_opts \in RenderOptionsSet
    /\ sc_scene \in Scenes(sc_opts)
    /\ sc_world \in Worlds
    /\ sc_px = [pc |-> "idle", rays |-> << >>, light_shifts |-> << >>, i |-> 0,
                acc |-> Color_zero]
    /\ sc_stack = << >>
    /\ sc_rng = [stream |-> <<0>>, pos |-> 0]
    /\ sc_results = << >>
    /\ MeshIdle /\ MatrixIdle /\ ReflIdle /\ RenderIdle /\ RootsIdle /\ SurfaceIdle
    /\ CameraIdle /\ AppIdle /\ RastIdle

scene_rest ==
    <<mesh_vars, matrix_vars, refl_vars, render_vars, roots_vars, surface_vars,
      camera_vars, app_vars, rast_vars>>

(* compute_pixel, lines 157-183: thread_rng(), the rays, the light shifts *)
PixelStart ==
    /\ sc_px.pc = "idle"
    /\ \E stream \in RngStreams :
          LET rng == [stream |-> stream, pos |-> 0]
              rng_shifts == Advance(rng, PrimaryRayDraws(sc_opts))
          IN  /\ sc_px' = [pc |-> "rays",
                           rays |-> PrimaryRays(sc_opts, rng),
                           light_shifts |-> LightShifts(sc_opts, rng_shifts),
                           i |-> 1, acc |-> Color_zero]
              /\ sc_rng' = Advance(rng_shifts, LightShiftDraws(sc_opts))
    /\ UNCHANGED <<sc_scene, sc_opts, sc_world, sc_stack, sc_results>>
    /\ UNCHANGED scene_rest

(* compute_pixel, lines 185-194: the next ray's compute_ray_color call     *)
(* with depth 0 and light_shifts[i], which panics when i is out of bounds. *)
PixelRay ==
    /\ sc_px.pc = "rays"
    /\ sc_stack = << >>
    /\ sc_px.i <= Len(sc_px.rays)
    /\ IF sc_px.i > Len(sc_px.light_shifts)
       THEN /\ sc_px' = [sc_px EXCEPT !.pc = "panic"]
            /\ UNCHANGED sc_stack
       ELSE /\ sc_stack' = << Frame(sc_px.rays[sc_px.i],
                                    RayOptions(0, sc_px.light_shifts[sc_px.i])) >>
            /\ UNCHANGED sc_px
    /\ UNCHANGED <<sc_scene, sc_opts, sc_world, sc_rng, sc_results>>
    /\ UNCHANGED scene_rest

(* compute_ray_color, lines 45-62: the closest hit; the background colour  *)
(* is returned when there is none, else the colour starts as the ambient   *)
(* part.                                                                   *)
RayObjects ==
    /\ sc_stack # << >>
    /\ Top.pc = "objects"
    /\ LET found == ClosestHit(sc_scene.objects, Surface_compute_hit(sc_world, Top.ray),
                               1, Hit_inf, VisualData_zero)
       IN  sc_stack' = SetTop(
             IF found.hit.t = Inf
             THEN [Top EXCEPT !.pc = "return", !.color = sc_scene.background_color]
             ELSE [Top EXCEPT !.hit = found.hit, !.vis = found.vis,
                              !.color = Color_mul(found.vis.color, sc_scene.ambient_strength),
                              !.light = 1,
                              !.pc = IF Len(sc_scene.lights) = 0 THEN "return" ELSE "light"])
    /\ UNCHANGED <<sc_scene, sc_opts, sc_world, sc_px, sc_rng, sc_results>>
    /\ UNCHANGED scene_rest

(* lines 65-71: the effective location of a light *)
light_location(light_camera, ray_options) ==
    IF IsSome(ray_options.light_shift)
    THEN QVAdd(light_camera.location,
               QVAdd(QVScale(light_camera.right, Unwrap(ray_options.light_shift)[1]),
                     QVScale(light_camera.top, Unwrap(ray_options.light_shift)[2])))
    ELSE light_camera.location

(* What shading reads at the current light: at its nominal location, or at *)
(* the effective location when that is another point (lines 73-78).        *)
LightData(f) ==
    IF light_location(sc_scene.lights[f.light], f.ray_options) # sc_scene.lights[f.light].location
    THEN sc_world.shifted[f.light]
    ELSE sc_world.nominal[f.light]

(* lines 81-84 with `hit.t <= distance_to_light` as the filter *)
Mutant_is_in_shadow_up_to_the_light(at) ==
    \E o \in 1..Len(at.blockers) :
        IsSome(at.blockers[o]) /\ ~Less(at.distance_to_light, Unwrap(at.blockers[o]).t)

(* lines 81-84: some object hits the shadow ray nearer than the light *)
is_in_shadow(at) ==
    \E o \in 1..Len(at.blockers) :
        IsSome(at.blockers[o]) /\ Less(Unwrap(at.blockers[o]).t, at.distance_to_light)

(* compute_ray_color, lines 65-100: the shadow test, the diffuse component *)
(* when not in shadow, the specular component when specular_strength > 0.  *)
RayLight ==
    /\ sc_stack # << >>
    /\ Top.pc = "light"
    /\ LET at == LightData(Top)
           light_camera == sc_scene.lights[Top.light]
           shadow == is_in_shadow(at)
           diffuse_cos == QMax(at.normal_dot_light, QZero)
           diffuse_light_color ==
               Color_mul(light_camera.color, QMul(diffuse_cos, sc_scene.diffuse_strength))
           color1 == IF ~shadow THEN Color_add(Top.color, diffuse_light_color) ELSE Top.color
           specular == QLess(QZero, Top.vis.specular_strength)
           spec_color ==
               Color_mul(light_camera.color, QMul(Top.vis.specular_strength, at.spec_pow))
           color2 == IF specular THEN Color_add(color1, spec_color) ELSE color1
       IN  sc_stack' = SetTop([Top EXCEPT
               !.light_location = Some(light_location(light_camera, Top.ray_options)),
               !.is_in_shadow = shadow,
               !.diffuse_light_color = IF ~shadow THEN Some(diffuse_light_color) ELSE None,
               !.spec_color = IF specular THEN Some(spec_color) ELSE None,
               !.color = color2,
               !.pc = "reflect"])
    /\ UNCHANGED <<sc_scene, sc_opts, sc_world, sc_px, sc_rng, sc_results>>
    /\ UNCHANGED scene_rest

(* line 103 with the depth test off by one *)
Mutant_reflects_at_depth_one(f) ==
    f.ray_options.depth <= 1 /\ QLess(QZero, f.vis.reflection_strength)

(* line 103: ray_options.depth == 0 && vis.reflection_strength > 0.0 *)
StartsReflection(f) ==
    f.ray_options.depth = 0 /\ QLess(QZero, f.vis.reflection_strength)

(* lines 108-140: the reflection rays; with glossiness the jitter weights  *)
(* of ray m are glossiness * (gen() - 0.5), two draws per ray.             *)
ReflectionRays(vis, rng) ==
    IF QLess(QZero, vis.reflection_glossiness)
    THEN [m \in 1..NUM_GLOSSY_REFL_RAYS |->
            Ray("refl",
                QMul(vis.reflection_glossiness, QAdd(Gen(rng, 2 * (m - 1)), Q(-1, 2))),
                QMul(vis.reflection_glossiness, QAdd(Gen(rng, 2 * (m - 1) + 1), Q(-1, 2))))]
    ELSE << Ray("refl", QZero, QZero) >>
ReflectionRayDraws(vis) ==
    IF QLess(QZero, vis.reflection_glossiness) THEN 2 * NUM_GLOSSY_REFL_RAYS ELSE 0

(* line 149 and the end of the loop body: clamp, then the next light or    *)
(* the return of the colour.                                               *)
NextLight(f) ==
    [f EXCEPT !.color = Color_clamp(f.color),
              !.light = f.light + 1,
              !.pc = IF f.light + 1 > Len(sc_scene.lights) THEN "return" ELSE "light"]

(* compute_ray_color, lines 103-140: at depth 0 on a reflective material   *)
(* the reflection rays are made; otherwise the light's iteration ends.     *)
RayReflect ==
    /\ sc_stack # << >>
    /\ Top.pc = "reflect"
    /\ IF StartsReflection(Top)
       THEN /\ sc_stack' = SetTop([Top EXCEPT
                   !.reflection_rays = ReflectionRays(Top.vis, sc_rng),
                   !.r = 1,
                   !.reflection_color = Color_zero,
                   !.pc = "reflection_rays"])
            /\ sc_rng' = Advance(sc_rng, ReflectionRayDraws(Top.vis))
       ELSE /\ sc_stack' = SetTop(NextLight(Top))
            /\ UNCHANGED sc_rng
    /\ UNCHANGED <<sc_scene, sc_opts, sc_world, sc_px, sc_results>>
    /\ UNCHANGED scene_rest

(* lines 142-143: the compute_ray_color call for the next reflection ray,  *)
(* one level deeper.                                                       *)
RayReflectionCall ==
    /\ sc_stack # << >>
    /\ Top.pc = "reflection_rays"
    /\ Top.r <= Len(Top.reflection_rays)
    /\ sc_stack' = Append(SetTop([Top EXCEPT !.pc = "reflection_wait"]),
                          Frame(Top.reflection_rays[Top.r],
                                RayOptions_increment_depth(Top.ray_options)))
    /\ UNCHANGED <<sc_scene, sc_opts, sc_world, sc_px, sc_rng, sc_results>>
    /\ UNCHANGED scene_rest

(* lines 144-149: the reflection colour is added with the material's       *)
(* strength and the light's iteration ends.                                *)
RayReflectionDone ==
    /\ sc_stack # << >>
    /\ Top.pc = "reflection_rays"
    /\ Top.r > Len(Top.reflection_rays)
    /\ sc_stack' = SetTop(NextLight([Top EXCEPT
            !.color = Color_add(Top.color,
                          Color_mul(Top.reflection_color, Top.vis.reflection_strength)),
            !.reflection_adds = @ + 1]))
    /\ UNCHANGED <<sc_scene, sc_opts, sc_world, sc_px, sc_rng, sc_results>>
    /\ UNCHANGED scene_rest

(* The return of a compute_ray_color call: its colour times 1 / len is     *)
(* added to the fold of the caller, the reflection loop (lines 142-144) or *)
(* compute_pixel (lines 188-195).                                          *)
RayReturn ==
    /\ sc_stack # << >>
    /\ Top.pc = "return"
    /\ IF Len(sc_stack) = 1
       THEN /\ sc_stack' = << >>
            /\ sc_px' = [sc_px EXCEPT
                   !.acc = Color_add(sc_px.acc, Color_mul(Top.color, Q(1, Len(sc_px.rays)))),
                   !.i = sc_px.i + 1]
       ELSE /\ LET caller == sc_stack[Len(sc_stack) - 1]
               IN  sc_stack' = [SubSeq(sc_stack, 1, Len(sc_stack) - 1)
                                  EXCEPT ![Len(sc_stack) - 1] = [caller EXCEPT
                        !.reflection_color = Color_add(caller.reflection_color,
                            Color_mul(Top.color, Q(1, Len(caller.reflection_rays)))),
                        !.r = caller.r + 1,
                        !.pc = "reflection_rays"]]
            /\ UNCHANGED sc_px
    /\ UNCHANGED <<sc_scene, sc_opts, sc_world, sc_rng, sc_results>>
    /\ UNCHANGED scene_rest

(* compute_pixel, line 195: the fold is over and the colour is returned *)
PixelDone ==
    /\ sc_px.pc = "rays"
    /\ sc_stack = << >>
    /\ sc_px.i > Len(sc_px.rays)
    /\ sc_results' = Append(sc_results, sc_px.acc)
    /\ sc_px' = [sc_px EXCEPT !.pc = "done"]
    /\ UNCHANGED <<sc_scene, sc_opts, sc_world, sc_stack, sc_rng>>
    /\ UNCHANGED scene_rest

(* The next frame: the same pixel of the same scene is computed again. *)
PixelAgain ==
    /\ sc_px.pc = "done"
    /\ Len(sc_results) < MaxInvocations
    /\ sc_px' = [pc |-> "idle", rays |-> << >>, light_shifts |-> << >>, i |-> 0,
                 acc |-> Color_zero]
    /\ UNCHANGED <<sc_scene, sc_opts, sc_world, sc_stack, sc_rng, sc_results>>
    /\ UNCHANGED scene_rest

SceneNext ==
    \/ PixelStart \/ PixelRay \/ PixelDone \/ PixelAgain
    \/ RayObjects \/ RayLight \/ RayReflect \/ RayReflectionCall
    \/ RayReflectionDone \/ RayReturn

SpecScene == SceneInit /\ [][SceneNext]_vars

----------------------------------------------------------------------------
(* Claims about compute_pixel and compute_ray_color. *)
InUnit(q) == ~QLess(q, QZero) /\ ~QLess(QOne, q)

(* C2: every colour compute_pixel has returned has its r, g and b in       *)
(* [0, 1], for every scene, world and combination of render options.       *)
C2_PixelChannelsInUnitRange ==
    \A k \in 1..Len(sc_results) :
        InUnit(sc_results[k].r) /\ InUnit(sc_results[k].g) /\ InUnit(sc_results[k].b)

(* C2 witness: compute_pixel returned a colour with a saturated channel    *)
(* and a channel strictly inside the range, with supersampling, soft       *)
(* shadows and glossiness on, in the scene with out-of-range colours and   *)
(* two lights, where the rays hit the reflective sphere.                   *)
C2_Witness ==
    /\ Len(sc_results) >= 1
    /\ sc_opts.use_supersampling /\ sc_opts.use_soft_shadows
    /\ sc_opts.reflection_glossiness # QZero
    /\ sc_scene = BrightScene(sc_opts)
    /\ sc_world.cam[1] = SphereBFront
    /\ sc_results[1].r = QOne
    /\ \E c \in {sc_results[1].g, sc_results[1].b} : QLess(QZero, c) /\ QLess(c, QOne)

Plain == ~sc_opts.use_soft_shadows /\ ~sc_opts.use_supersampling
TwoInvocations == Len(sc_results) = 2

(* C3 as stated: without soft shadows and supersampling, two invocations   *)
(* of compute_pixel on the simple scene return the same colour, whatever   *)
(* the random generator yields.                                            *)
C3_PlainRenderIsDeterministic ==
    (Plain /\ sc_scene = SimpleScene(sc_opts) /\ TwoInvocations) =>
        sc_results[1] = sc_results[2]

(* C3 amended: without soft shadows and supersampling and with             *)
(* reflection_glossiness = 0, two invocations of compute_pixel on the      *)
(* simple scene return the same colour, whatever the random generator      *)
(* yields.                                                                 *)
C3_PlainMirrorRenderIsDeterministic ==
    (Plain /\ sc_opts.reflection_glossiness = QZero
        /\ sc_scene = SimpleScene(sc_opts) /\ TwoInvocations) =>
        sc_results[1] = sc_results[2]

(* C3 witness: two invocations with the default options on the simple      *)
(* scene, the second run with a generator that yields 0.5 where the        *)
(* first's values were lost, the ray hitting the reflective sphere.        *)
C3_Witness ==
    /\ sc_opts = RenderOptions_defaults
    /\ sc_scene = SimpleScene(sc_opts)
    /\ TwoInvocations
    /\ sc_world.cam[2] = SphereBFront
    /\ sc_rng.stream = <<2>>
    /\ sc_results[1] = sc_results[2]
    /\ sc_results[1] # sc_scene.background_color

(* C5, the safety part: at most two compute_ray_color calls are nested,    *)
(* the call at nesting level k runs at depth k - 1, and a call at depth    *)
(* 1 or more is never making reflection calls.                             *)
DepthBounded ==
    /\ Len(sc_stack) <= 2
    /\ \A k \in 1..Len(sc_stack) :
          /\ sc_stack[k].ray_options.depth = k - 1
          /\ sc_stack[k].ray_options.depth >= 1 =>
                sc_stack[k].pc \notin {"reflection_rays", "reflection_wait"}

(* The number of steps a compute_ray_color call can still take, counted   *)
(* from its position: a call at depth 1 or more takes one step for the     *)
(* objects, two per light and one to return; a call at depth 0 takes, per  *)
(* light, two steps plus a call and a whole inner call per reflection ray  *)
(* plus one to add the reflection.                                         *)
Lights == Len(sc_scene.lights)
InnerCallSteps == 2 * Lights + 2
MaxReflectionRays == IF NUM_GLOSSY_REFL_RAYS > 1 THEN NUM_GLOSSY_REFL_RAYS ELSE 1
StepsPerLight == 3 + MaxReflectionRays * (1 + InnerCallSteps)
StepsLeft(f) ==
    IF f.ray_options.depth >= 1
    THEN CASE f.pc = "objects" -> InnerCallSteps
           [] f.pc = "light" -> 2 * (Lights - f.light + 1) + 1
           [] f.pc = "reflect" -> 2 * (Lights - f.light) + 2
           [] f.pc = "return" -> 1
           [] OTHER -> 0
    ELSE CASE f.pc = "objects" -> Lights * StepsPerLight + 2
           [] f.pc = "light" -> (Lights - f.light + 1) * StepsPerLight + 1
           [] f.pc = "reflect" -> (Lights - f.light + 1) * StepsPerLight
           [] f.pc = "reflection_rays" ->
                (Lights - f.light) * StepsPerLight
                + (Len(f.reflection_rays) - f.r + 1) * (1 + InnerCallSteps) + 2
           [] f.pc = "reflection_wait" ->
                (Lights - f.light) * StepsPerLight
                + (Len(f.reflection_rays) - f.r) * (1 + InnerCallSteps) + 2
           [] f.pc = "return" -> 1
           [] OTHER -> 0
RECURSIVE StackStepsLeft(_)
StackStepsLeft(stack) ==
    IF stack = << >> THEN 0 ELSE StepsLeft(Head(stack)) + StackStepsLeft(Tail(stack))

(* The innermost running call is at a position one of the steps of        *)
(* compute_ray_color starts from.                                          *)
CanStep ==
    sc_stack # << >> =>
        \/ Top.pc \in {"objects", "reflect", "reflection_rays", "return"}
        \/ Top.pc = "light" /\ Top.light \in 1..Lights

(* C5: every compute_ray_color call terminates (each step of a running     *)
(* call lowers the number of steps its calls can still take, and a running *)
(* call can always take a step), and reflection is one level deep: calls   *)
(* nest at most two deep and a call at depth 1 or more starts no call.     *)
C5_TerminatesOneLevelDeep ==
    /\ []DepthBounded
    /\ []CanStep
    /\ [][sc_stack # << >> => StackStepsLeft(sc_stack') < StackStepsLeft(sc_stack)]_vars

(* C5 witness: a call at depth 1 has hit a reflective material and is      *)
(* about to return without reflecting, under a depth-0 call that waits.    *)
C5_Witness ==
    /\ Len(sc_stack) = 2
    /\ sc_stack[1].pc = "reflection_wait"
    /\ sc_stack[2].ray_options.depth = 1
    /\ QLess(QZero, sc_stack[2].vis.reflection_strength)
    /\ sc_stack[2].pc = "return"
    /\ sc_stack[2].light > Len(sc_scene.lights)

(* C7: a light whose shadow ray is blocked adds neither its diffuse nor    *)
(* its specular colour: after the diffuse/specular step of a shadowed      *)
(* light no diffuse colour and no non-zero specular colour was added.      *)
C7_ShadowedLightAddsNothing ==
    \A k \in 1..Len(sc_stack) :
        sc_stack[k].is_in_shadow =>
            /\ sc_stack[k].diffuse_light_color = None
            /\ sc_stack[k].spec_color \in {None, Some(Color_zero)}

(* The diffuse half of the same statement. *)
Aux_ShadowedLightAddsNoDiffuse ==
    \A k \in 1..Len(sc_stack) :
        sc_stack[k].is_in_shadow => sc_stack[k].diffuse_light_color = None

(* A call that is returning the shaded colour of a hit it found at the top *)
(* recursion level on a reflective material.                               *)
ReturnsReflectiveHit(f) ==
    /\ f.pc = "return"
    /\ f.ray_options.depth = 0
    /\ f.hit.t # Inf
    /\ QLess(QZero, f.vis.reflection_strength)

(* C14: a compute_ray_color call that hit a material with                  *)
(* reflection_strength > 0 at depth 0 has added reflection_strength *      *)
(* reflection_color exactly once when it returns, whatever the number of   *)
(* lights of the scene (none, one or several).                             *)
C14_ReflectionAddedOnce ==
    \A k \in 1..Len(sc_stack) :
        ReturnsReflectiveHit(sc_stack[k]) => sc_stack[k].reflection_adds = 1

(* The same statement over scenes with exactly one light. *)
Aux_ReflectionAddedOnceWithOneLight ==
    \A k \in 1..Len(sc_stack) :
        (ReturnsReflectiveHit(sc_stack[k]) /\ Len(sc_scene.lights) = 1)
            => sc_stack[k].reflection_adds = 1

(* The reflection is added once per light. *)
Aux_ReflectionAddedPerLight ==
    \A k \in 1..Len(sc_stack) :
        ReturnsReflectiveHit(sc_stack[k])
            => sc_stack[k].reflection_adds = Len(sc_scene.lights)

(* What the objects of the scene answered for the ray of a call, and the   *)
(* calls that are past the loop over the objects.                          *)
HitsOf(f) == Surface_compute_hit(sc_world, f.ray)
PastObjects(f) == f.pc # "objects"

(* The call took the early return of lines 57-59. *)
ReturnedBackground(f) ==
    /\ f.pc = "return"
    /\ f.hit = Hit_inf
    /\ f.color = sc_scene.background_color

(* The call shades the hit of object k, and no object among `among` has a  *)
(* smaller t.                                                              *)
ShadesClosest(f, among) ==
    \E k \in among :
        /\ f.hit = Unwrap(HitsOf(f)[k])
        /\ f.vis = sc_scene.objects[k]
        /\ \A m \in among : ~Less(Unwrap(HitsOf(f)[m]).t, f.hit.t)

(* The objects that answered a hit, and those whose hit has a t that is a  *)
(* number below infinity.                                                  *)
ObjectsHit(f) == { k \in 1..Len(HitsOf(f)) : IsSome(HitsOf(f)[k]) }
ObjectsHitAtNumber(f) == { k \in ObjectsHit(f) : Less(Unwrap(HitsOf(f)[k]).t, Inf) }

ShadowTested(f) == f.pc \in {"reflect", "reflection_rays", "reflection_wait"}

(* The t of the hits the objects answer on the shadow ray of the call's    *)
(* current light.                                                          *)
ShadowRayHits(f) ==
    { Unwrap(LightData(f).blockers[o]).t :
        o \in { b \in 1..Len(LightData(f).blockers) : IsSome(LightData(f).blockers[b]) } }

(* C22: a light is treated as shadowed exactly when some object hits the   *)
(* shadow ray with t strictly less than the distance from the hit point to *)
(* the light; a hit at or beyond that distance does not shadow.            *)
C22_ShadowedIffHitBeforeLight ==
    \A i \in 1..Len(sc_stack) :
        LET f == sc_stack[i]
            distance_to_light == LightData(f).distance_to_light
        IN  ShadowTested(f) =>
               /\ f.is_in_shadow <=>
                     (\E t \in ShadowRayHits(f) :
                         t.kind = "fin" /\ t.n * distance_to_light.d < distance_to_light.n * t.d)
               /\ (\A t \in ShadowRayHits(f) :
                      t.kind = "fin" /\ t.n * distance_to_light.d >= distance_to_light.n * t.d)
                     => ~f.is_in_shadow

(* C22 witness: at the second light an object hits the shadow ray exactly  *)
(* at the distance of the light and another beyond it, and the light is    *)
(* not treated as shadowed; the first light of the same call was shadowed  *)
(* by an object before the light.                                          *)
C22_Witness ==
    /\ Len(sc_stack) = 1
    /\ sc_stack[1].pc = "reflect"
    /\ sc_stack[1].light = 2
    /\ LightData(sc_stack[1]) = BehindTheLight
    /\ ~sc_stack[1].is_in_shadow
    /\ sc_world.shifted[1] = BlockedBySphereA

(* compute_pixel has made its rays.  A camera ray carries its sample       *)
(* position less the pixel's own (i, j).                                   *)
RaysMade == sc_px.pc \in {"rays", "done"}
Within(q, lo, hi) == ~QLess(q, lo) /\ QLess(q, hi)

(* C23: with supersampling compute_pixel makes N * N primary rays and the  *)
(* sample position of the ray of grid cell (a, b) lies in the cell's own   *)
(* sub-cell of the pixel, x in [i + a/N, i + (a+1)/N) and y in             *)
(* [j + b/N, j + (b+1)/N), whatever the random jitter.                     *)
C23_SamplesInsideSubCell ==
    (RaysMade /\ sc_opts.use_supersampling) =>
        /\ Len(sc_px.rays) = NUM_DIST_RT_SAMPLES * NUM_DIST_RT_SAMPLES
        /\ \A m \in 1..Len(sc_px.rays) :
              /\ Within(sc_px.rays[m].u, Q(GridCell(m)[1], NUM_DIST_RT_SAMPLES),
                                         Q(GridCell(m)[1] + 1, NUM_DIST_RT_SAMPLES))
              /\ Within(sc_px.rays[m].v, Q(GridCell(m)[2], NUM_DIST_RT_SAMPLES),
                                         Q(GridCell(m)[2] + 1, NUM_DIST_RT_SAMPLES))

(* What the code keeps: N * N rays, the one of cell (a, b) at most one     *)
(* whole pixel to the right of and above the corner of its sub-cell.       *)
Aux_SamplesWithinOnePixelOfSubCell ==
    (RaysMade /\ sc_opts.use_supersampling) =>
        /\ Len(sc_px.rays) = NUM_DIST_RT_SAMPLES * NUM_DIST_RT_SAMPLES
        /\ \A m \in 1..Len(sc_px.rays) :
              /\ Within(sc_px.rays[m].u, Q(GridCell(m)[1], NUM_DIST_RT_SAMPLES),
                                         QAdd(Q(GridCell(m)[1], NUM_DIST_RT_SAMPLES), QOne))
              /\ Within(sc_px.rays[m].v, Q(GridCell(m)[2], NUM_DIST_RT_SAMPLES),
                                         QAdd(Q(GridCell(m)[2], NUM_DIST_RT_SAMPLES), QOne))

(* The values s of [0, 1] (of [0, 2] for Steps(2)) that a light shift of   *)
(* the model can take: the multiples of 1 / (4 * N).                       *)
Steps(upto) ==
    { Q(k, 4 * NUM_DIST_RT_SAMPLES) : k \in 0..(upto * 4 * NUM_DIST_RT_SAMPLES) }

(* p = location + s * right + t * top for some s and t of `steps`. *)
InRectangle(light_camera, p, steps) ==
    \E s \in steps, t \in steps :
        p = QVAdd(light_camera.location,
                  QVAdd(QVScale(light_camera.right, s), QVScale(light_camera.top, t)))

ZeroExtents(light_camera) ==
    light_camera.right = QV(<<0, 0, 0>>) /\ light_camera.top = QV(<<0, 0, 0>>)

(* C24: with soft shadows every effective light position lies inside the   *)
(* light's rectangle location + s * right + t * top, 0 <= s, t <= 1,       *)
(* whatever the random jitter; without soft shadows it is the light's      *)
(* nominal location, and so it is for a light with zero extents.           *)
C24_EffectiveLightInsideRectangle ==
    \A i \in 1..Len(sc_stack) :
        LET f == sc_stack[i]
            light_camera == sc_scene.lights[f.light]
        IN  ShadowTested(f) =>
               /\ sc_opts.use_soft_shadows =>
                      InRectangle(light_camera, Unwrap(f.light_location), Steps(1))
               /\ ~sc_opts.use_soft_shadows =>
                      Unwrap(f.light_location) = light_camera.location
               /\ ZeroExtents(light_camera) =>
                      Unwrap(f.light_location) = light_camera.location

(* What the code keeps: the nominal location without soft shadows and for  *)
(* a light with zero extents, and with soft shadows a position inside the  *)
(* rectangle of twice the sides.                                           *)
Aux_EffectiveLightInsideDoubleRectangle ==
    \A i \in 1..Len(sc_stack) :
        LET f == sc_stack[i]
            light_camera == sc_scene.lights[f.light]
        IN  ShadowTested(f) =>
               /\ sc_opts.use_soft_shadows =>
                      InRectangle(light_camera, Unwrap(f.light_location), Steps(2))
               /\ ~sc_opts.use_soft_shadows =>
                      Unwrap(f.light_location) = light_camera.location
               /\ ZeroExtents(light_camera) =>
                      Unwrap(f.light_location) = light_camera.location

(* C27: for every combination of use_supersampling and use_soft_shadows    *)
(* the light_shifts list has at least as many entries as there are primary *)
(* rays, so that light_shifts[i] is in bounds for every ray index i and    *)
(* compute_pixel does not panic on it.  With the grid of the source, 5 by  *)
(* 5, the rays are as many as the 25 entries of `vec![None; 25]`.          *)
C27_LightShiftLookupInBounds ==
    /\ SOURCE_NUM_DIST_RT_SAMPLES * SOURCE_NUM_DIST_RT_SAMPLES <= LIGHT_SHIFTS_LEN
    /\ sc_px.pc # "panic"
    /\ RaysMade =>
          /\ Len(sc_px.rays) <= Len(sc_px.light_shifts)
          /\ sc_stack # << >> => sc_px.i \in 1..Len(sc_px.light_shifts)

(* C27 witness: with supersampling and without soft shadows the call for   *)
(* the last ray of the grid is running, on the entry of its own index.     *)
C27_Witness ==
    /\ sc_opts.use_supersampling /\ ~sc_opts.use_soft_shadows
    /\ sc_px.pc = "rays"
    /\ sc_px.i = NUM_DIST_RT_SAMPLES * NUM_DIST_RT_SAMPLES
    /\ Len(sc_stack) = 1
    /\ sc_stack[1].ray_options.light_shift = None

----------------------------------------------------------------------------
(* surface/quadrics.rs: the quadratic-root helper.  Coefficients and roots *)
(* are exact rationals [n, d]; the inputs are those whose discriminant is  *)
(* negative or the square of a rational, so that f32::sqrt is exact.       *)
(* The least k in lo..hi with k * k >= n, by bisection; SqrtUp(n, 0) is   *)
(* the least such k >= 0, for n below 2^30.                                *)
RECURSIVE SqrtBetween(_, _, _)
SqrtBetween(n, lo, hi) ==
    IF lo >= hi THEN lo
    ELSE LET mid == (lo + hi) \div 2
         IN  IF mid * mid >= n THEN SqrtBetween(n, lo, mid)
             ELSE SqrtBetween(n, mid + 1, hi)
SqrtUp(n, from) == SqrtBetween(n, from, 32768)
IsSquare(n) == n >= 0 /\ SqrtUp(n, 0) * SqrtUp(n, 0) = n
HasExactSqrt(a) == IsSquare(a.n) /\ IsSquare(a.d)

(* f32::sqrt of a square of a rational *)
QSqrt(a) == Q(SqrtUp(a.n, 0), SqrtUp(a.d, 0))

(* MIN_RAY_T as a rational: 0.0001 *)
MinRayT == Q(MIN_RAY_T, UNIT)

discriminant(a, b, c) == QSub(QMul(b, b), QMul(QInt(4), QMul(a, c)))

(* find_square_roots: None, or Some of the pair (root, Option<root>). *)
find_square_roots(a, b, c) ==
    LET discr == discriminant(a, b, c)
        discr_sqrt == QSqrt(discr)
        two_a == QMul(QInt(2), a)
    IN  IF QLess(discr, QZero) THEN None
        ELSE IF discr = QZero
        THEN Some(<<QDiv(QNeg(b), two_a), None>>)
        ELSE Some(<<QDiv(QSub(QNeg(b), discr_sqrt), two_a),
                    Some(QDiv(QAdd(QNeg(b), discr_sqrt), two_a))>>)

(* A selection that prefers the first root of the pair whenever it is      *)
(* valid, without comparing it with the second.                            *)
Mutant_select_first_valid_root(roots) ==
    IF ~IsSome(roots[2])
    THEN IF ~QLess(roots[1], MinRayT) THEN Some(roots[1]) ELSE None
    ELSE LET t0 == roots[1]
             t1 == Unwrap(roots[2])
         IN  IF QLess(t0, MinRayT)
             THEN IF QLess(t1, MinRayT) THEN None ELSE Some(t1)
             ELSE Some(t0)

(* select_smallest_positive_root *)
select_smallest_positive_root(roots) ==
    IF ~IsSome(roots[2])
    THEN IF ~QLess(roots[1], MinRayT) THEN Some(roots[1]) ELSE None
    ELSE LET t0 == roots[1]
             t1 == Unwrap(roots[2])
         IN  IF QLess(t0, MinRayT)
             THEN IF QLess(t1, MinRayT) THEN None ELSE Some(t1)
             ELSE IF QLess(t1, MinRayT) THEN Some(t0) ELSE Some(QMin(t0, t1))

(* The coefficients tried: small ones of both signs, and leading           *)
(* coefficients that put a root at or just below MIN_RAY_T.                *)
LeadingCoeffs == {-2, -1, 1, 2, 10000, 20000}
LinearCoeffs == -4..4
ConstantCoeffs == -3..3
Coefficients ==
    { co \in LeadingCoeffs \X LinearCoeffs \X ConstantCoeffs :
        LET discr == discriminant(QInt(co[1]), QInt(co[2]), QInt(co[3]))
        IN  QLess(discr, QZero) \/ HasExactSqrt(discr) }

RootsInit ==
    /\ rt_coeffs \in Coefficients
    /\ rt_roots = None
    /\ rt_t = None
    /\ rt_pc = {}
    /\ MeshIdle /\ MatrixIdle /\ ReflIdle /\ RenderIdle /\ SceneIdle /\ SurfaceIdle
    /\ CameraIdle /\ AppIdle /\ RastIdle

roots_rest ==
    <<mesh_vars, matrix_vars, refl_vars, render_vars, scene_vars, surface_vars,
      camera_vars, app_vars, rast_vars>>

(* let roots = find_square_roots(a, b, c)?; *)
FindSquareRoots ==
    /\ rt_pc = {}
    /\ rt_roots' = Some(find_square_roots(QInt(rt_coeffs[1]), QInt(rt_coeffs[2]),
                                          QInt(rt_coeffs[3])))
    /\ rt_pc' = {"find_square_roots"}
    /\ UNCHANGED <<rt_coeffs, rt_t>>
    /\ UNCHANGED roots_rest

(* let t = select_smallest_positive_root(roots)?;  Reached only when the   *)
(* `?` on find_square_roots did not return.                                *)
SelectSmallestPositiveRoot ==
    /\ rt_pc = {"find_square_roots"}
    /\ IsSome(Unwrap(rt_roots))
    /\ rt_t' = Some(select_smallest_positive_root(Unwrap(Unwrap(rt_roots))))
    /\ rt_pc' = rt_pc \cup {"select_smallest_positive_root"}
    /\ UNCHANGED <<rt_coeffs, rt_roots>>
    /\ UNCHANGED roots_rest

RootsNext == FindSquareRoots \/ SelectSmallestPositiveRoot

SpecRoots == RootsInit /\ [][RootsNext]_vars

(* The helper has returned: through the first `?`, or from the selection.  *)
HelperDone ==
    \/ "select_smallest_positive_root" \in rt_pc
    \/ "find_square_roots" \in rt_pc /\ ~IsSome(Unwrap(rt_roots))
HelperResult ==
    IF "select_smallest_positive_root" \in rt_pc THEN Unwrap(rt_t) ELSE None

(* The rational roots of a x^2 + b x + c, found by substitution among the  *)
(* fractions x = p / 2a: 4a (a x^2 + b x + c) = p^2 + 2 b p + 4 a c.       *)
IsRootOf(p, co) == p * p + 2 * co[2] * p + 4 * co[1] * co[3] = 0
RootsOf(co) ==
    LET discr == co[2] * co[2] - 4 * co[1] * co[3]
        reach == Abs(co[2]) + SqrtUp(Abs(discr), 0)
    IN  { Q(p, 2 * co[1]) : p \in { k \in (-reach)..reach : IsRootOf(k, co) } }
ValidRootsOf(co) == { x \in RootsOf(co) : ~QLess(x, MinRayT) }

(* C11: find_square_roots followed by select_smallest_positive_root, for   *)
(* a # 0: no hit when the discriminant is negative; the single root when   *)
(* the discriminant is 0 and the root is >= MIN_RAY_T; otherwise the       *)
(* smallest of the two roots that is >= MIN_RAY_T, and no hit when every   *)
(* root is below MIN_RAY_T.                                                *)
C11_SmallestValidRoot ==
    HelperDone =>
        LET discr == rt_coeffs[2] * rt_coeffs[2] - 4 * rt_coeffs[1] * rt_coeffs[3]
            roots == RootsOf(rt_coeffs)
            valid == ValidRootsOf(rt_coeffs)
        IN  /\ discr < 0 => HelperResult = None /\ roots = {}
            /\ discr = 0 => Cardinality(roots) = 1
            /\ discr > 0 => Cardinality(roots) = 2
            /\ (discr >= 0 /\ valid = {}) => HelperResult = None
            /\ (discr >= 0 /\ valid # {}) =>
                   /\ IsSome(HelperResult)
                   /\ Unwrap(HelperResult) \in valid
                   /\ \A x \in valid : ~QLess(x, Unwrap(HelperResult))

(* C11 witness: a negative leading coefficient, two valid roots, and the   *)
(* smaller one, which is the second of the pair, returned.                 *)
C11_Witness ==
    /\ "select_smallest_positive_root" \in rt_pc
    /\ rt_coeffs[1] < 0
    /\ Cardinality(ValidRootsOf(rt_coeffs)) = 2
    /\ IsSome(HelperResult)
    /\ Some(Unwrap(HelperResult)) = Unwrap(Unwrap(rt_roots))[2]

----------------------------------------------------------------------------
(* surface/quadrics.rs: Plane, Sphere and Cone, over exact rationals.  A   *)
(* point or vector is a triple of rationals.                               *)
QVDot(a, b) == QAdd(QAdd(QMul(a[1], b[1]), QMul(a[2], b[2])), QMul(a[3], b[3]))
QVNormSquared(v) == QVDot(v, v)
QSquare(a) == QMul(a, a)

(* Ray::compute_point on a ray of rationals *)
Ray_compute_point(r, t) == QVAdd(r.origin, QVScale(r.direction, t))

(* compute_plane_hit with the test of t left out: a plane behind the ray   *)
(* origin is reported as hit.                                              *)
Mutant_compute_plane_hit_behind(bias, normal, r) ==
    LET denom == QVDot(normal, r.direction)
        num == QVDot(QVSub(bias, r.origin), normal)
    IN  IF denom = QZero THEN None
        ELSE Some([t |-> QDiv(num, denom), normal |-> normal])

(* compute_plane_hit *)
compute_plane_hit(bias, normal, r) ==
    LET denom == QVDot(normal, r.direction)
        num == QVDot(QVSub(bias, r.origin), normal)
        t == QDiv(num, denom)
    IN  IF denom = QZero THEN None
        ELSE IF ~QLess(t, MinRayT) THEN Some([t |-> t, normal |-> normal])
        ELSE None

(* impl Surface for Plane *)
Plane_compute_hit(self, r) == compute_plane_hit(self.bias, self.normal, r)

(* Sphere::compute_normal *)
Sphere_compute_normal(self, point) ==
    QVScale(QVSub(point, self.center), QDiv(QOne, self.radius))

(* The coefficients Sphere::compute_hit hands to find_square_roots. *)
Sphere_coefficients(self, r) ==
    LET orig_to_c == QVSub(self.center, r.origin)
    IN  << QVNormSquared(r.direction),
           QMul(QInt(-2), QVDot(r.direction, orig_to_c)),
           QSub(QVNormSquared(orig_to_c), QMul(self.radius, self.radius)) >>

(* Sphere::compute_hit with the factor -2 of the linear coefficient        *)
(* replaced by 2: the roots change sign.                                   *)
Mutant_Sphere_compute_hit_sign(self, r) ==
    LET co == Sphere_coefficients(self, r)
        roots == find_square_roots(co[1], QNeg(co[2]), co[3])
        t == select_smallest_positive_root(Unwrap(roots))
    IN  IF ~IsSome(roots) THEN None
        ELSE IF ~IsSome(t) THEN None
        ELSE Some([t |-> Unwrap(t),
                   normal |-> Sphere_compute_normal(self, Ray_compute_point(r, Unwrap(t)))])

(* impl Surface for Sphere: compute_hit *)
Sphere_compute_hit(self, r) ==
    LET co == Sphere_coefficients(self, r)
        roots == find_square_roots(co[1], co[2], co[3])
        t == select_smallest_positive_root(Unwrap(roots))
    IN  IF ~IsSome(roots) THEN None
        ELSE IF ~IsSome(t) THEN None
        ELSE Some([t |-> Unwrap(t),
                   normal |-> Sphere_compute_normal(self, Ray_compute_point(r, Unwrap(t)))])

(* Cone.  The field tanh_half_angle is the value of self.half_angle.tanh() *)
(* (the code reads half_angle through tanh only).                          *)
Cone_s(self) == QSquare(self.tanh_half_angle)
BaseY(self) == QSub(self.apex[2], self.height)

(* The coefficients Cone::compute_cone_hit hands to find_square_roots. *)
Cone_coefficients(self, r) ==
    LET s == Cone_s(self)
        dx == r.direction[1]
        dy == r.direction[2]
        dz == r.direction[3]
        ox == QSub(r.origin[1], self.apex[1])
        oy == QSub(r.origin[2], self.apex[2])
        oz == QSub(r.origin[3], self.apex[3])
    IN  << QSub(QAdd(QSquare(dx), QSquare(dz)), QMul(QSquare(dy), s)),
           QMul(QInt(2), QSub(QAdd(QMul(dx, ox), QMul(dz, oz)), QMul(s, QMul(dy, oy)))),
           QSub(QAdd(QSquare(ox), QSquare(oz)), QMul(s, QSquare(oy))) >>

QAbs(a) == IF QLess(a, QZero) THEN QNeg(a) ELSE a

(* Cone::lies_on_slab *)
Cone_lies_on_slab(self, point) ==
    QLess(QAbs(QSub(point[2], BaseY(self))), Q(1, 1000000))

(* Cone::compute_normal, before the lateral normal is normalized. *)
Cone_compute_normal(self, point) ==
    IF Cone_lies_on_slab(self, point) THEN QV(<<0, -1, 0>>)
    ELSE << QMul(QInt(2), QSub(point[1], self.apex[1])),
            QMul(QMul(QInt(-2), Cone_s(self)), QSub(point[2], self.apex[2])),
            QMul(QInt(2), QSub(point[3], self.apex[3])) >>

(* py <= self.apex.y && py >= self.apex.y - self.height *)
InHeightRange(self, py) == ~QLess(self.apex[2], py) /\ ~QLess(py, BaseY(self))

(* Cone::compute_cone_hit *)
Cone_compute_cone_hit(self, r) ==
    LET co == Cone_coefficients(self, r)
        roots == find_square_roots(co[1], co[2], co[3])
        t == select_smallest_positive_root(Unwrap(roots))
        py == QAdd(r.origin[2], QMul(Unwrap(t), r.direction[2]))
    IN  IF ~IsSome(roots) THEN None
        ELSE IF ~IsSome(t) THEN None
        ELSE IF InHeightRange(self, py)
        THEN Some([t |-> Unwrap(t),
                   normal |-> Cone_compute_normal(self, Ray_compute_point(r, Unwrap(t)))])
        ELSE None

(* Cone::compute_slab_hit *)
Cone_compute_slab_hit(self, r) ==
    LET center == <<self.apex[1], BaseY(self), self.apex[3]>>
        slab_normal == QV(<<0, -1, 0>>)
        radius == QMul(self.height, self.tanh_half_angle)
        plane_hit == compute_plane_hit(center, slab_normal, r)
        hit_point == Ray_compute_point(r, Unwrap(plane_hit).t)
    IN  IF ~IsSome(plane_hit) THEN None
        ELSE IF QLess(QVNormSquared(QVSub(hit_point, center)), QSquare(radius))
        THEN plane_hit
        ELSE None

(* impl Surface for Cone: compute_hit *)
Cone_compute_hit(self, r) ==
    LET cone_hit == Cone_compute_cone_hit(self, r)
        slab_hit == Cone_compute_slab_hit(self, r)
    IN  IF IsSome(slab_hit)
        THEN IF IsSome(cone_hit)
             THEN IF QLess(Unwrap(slab_hit).t, Unwrap(cone_hit).t)
                  THEN slab_hit ELSE cone_hit
             ELSE slab_hit
        ELSE cone_hit

----------------------------------------------------------------------------
(* The surface specification: one surface, one ray, one call of            *)
(* compute_hit.  The ray is a record of integer triples; the quadrics are  *)
(* given it with rational components.                                      *)
QRay(r) == [origin |-> QV(r.origin), direction |-> QV(r.direction)]

Planes ==
    { [kind |-> "plane", bias |-> QV(<<0, y, 0>>), normal |-> QV(<<0, 1, 0>>)] : y \in {-1, 0} }
    \cup { [kind |-> "plane", bias |-> QV(<<0, 0, 1>>), normal |-> QV(<<1, 2, 2>>)] }

Radii == { Q(1, 2), QInt(1), QInt(2), QInt(3), QInt(4), Q(9, 2), QInt(5) }
Spheres ==
    { [kind |-> "sphere", center |-> QV(<<0, 0, 0>>), radius |-> radius] : radius \in Radii }
    \cup { [kind |-> "sphere", center |-> QV(<<0, 3, 0>>), radius |-> QInt(1)] }

Cones ==
    { [kind |-> "cone", apex |-> QV(<<0, 0, 0>>), height |-> QInt(2),
       tanh_half_angle |-> Q(1, 2)],
      [kind |-> "cone", apex |-> QV(<<0, 1, 0>>), height |-> QInt(1),
       tanh_half_angle |-> Q(1, 2)] }

Triangles == { [kind |-> "triangle", tri |-> tri] : tri \in TriangleChoices }

(* A vector of the matrix model as a vector of rationals, and back. *)
QVOf(vec) == << Q(vec.v[1], vec.den), Q(vec.v[2], vec.den), Q(vec.v[3], vec.den) >>
RVecOf(v) ==
    RVec(<< v[1].n * v[2].d * v[3].d, v[2].n * v[1].d * v[3].d, v[3].n * v[1].d * v[2].d >>,
         v[1].d * v[2].d * v[3].d)

(* Vec3::normalize, on a vector whose norm is rational *)
QVNormalize(v) == QVScale(v, QDiv(QOne, QSqrt(QVNormSquared(v))))

(* Ray::compute_t *)
Ray_compute_t(r, point) ==
    QSqrt(QDiv(QVNormSquared(QVSub(point, r.origin)), QVNormSquared(r.direction)))

(* TransformedSurface::new *)
TransformedSurface_new(transformation, surface) ==
    LET transformation_inv == Transformation_compute_inverse(transformation)
    IN  [kind |-> "transformed",
         transformation |-> transformation,
         transform_inv_t |-> Mat3_transpose(transformation_inv.transform_mat),
         transformation_inv |-> transformation_inv,
         surface |-> surface]

(* TransformedSurface::transform_normal before its normalize: a vector of  *)
(* the direction of the result.                                            *)
transform_normal(self, normal) ==
    QVOf(Mat3_mul_Vec3(self.transform_inv_t, RVecOf(normal)))

(* self.surface.compute_hit: the wrapped surface is a Plane or a Sphere *)
Wrapped_compute_hit(surface, r) ==
    IF surface.kind = "plane" THEN Plane_compute_hit(surface, r)
    ELSE Sphere_compute_hit(surface, r)

(* The ray in the space of the wrapped surface: ray_object *)
ray_object(self, r) ==
    [origin |-> QVOf(Transformation_mul_Point(self.transformation_inv, RVecOf(r.origin))),
     direction |-> QVNormalize(QVOf(Mat3_mul_Vec3(self.transformation_inv.transform_mat,
                                                  RVecOf(r.direction))))]

(* TransformedSurface::compute_hit returning the t of the wrapped hit *)
Mutant_TransformedSurface_compute_hit_local_t(self, r) ==
    LET hit == Wrapped_compute_hit(self.surface, ray_object(self, r))
    IN  IF IsSome(hit)
        THEN Some([t |-> Unwrap(hit).t,
                   normal |-> transform_normal(self, Unwrap(hit).normal)])
        ELSE None

(* impl Surface for TransformedSurface *)
TransformedSurface_compute_hit(self, r) ==
    LET hit == Wrapped_compute_hit(self.surface, ray_object(self, r))
        hit_point == QVOf(Transformation_mul_Point(self.transformation,
                              RVecOf(Ray_compute_point(ray_object(self, r), Unwrap(hit).t))))
        t_world == Ray_compute_t(r, hit_point)
    IN  IF IsSome(hit)
        THEN Some([t |-> t_world,
                   normal |-> transform_normal(self, Unwrap(hit).normal)])
        ELSE None

(* The transformed surfaces tried: a plane and two spheres under a         *)
(* rotation, a shear, a scale, a permutation and the identity, with and    *)
(* without a translation.                                                  *)
WrappedSurfaces ==
    { [kind |-> "plane", bias |-> QV(<<0, -1, 0>>), normal |-> QV(<<0, 1, 0>>)],
      [kind |-> "sphere", center |-> QV(<<0, 0, 0>>), radius |-> QInt(1)],
      [kind |-> "sphere", center |-> QV(<<0, 0, 0>>), radius |-> QInt(2)] }
TransformedSurfaces ==
    { TransformedSurface_new(Transformation_new(m, t), surface) :
        m \in MatsB, t \in Translations, surface \in WrappedSurfaces }

Surfaces == Planes \cup Spheres \cup Cones \cup Triangles \cup TransformedSurfaces

QuadricRayOrigins ==
    { <<0, 0, -5>>, <<0, 3, -5>>, <<0, 0, 0>>, <<-3, 7, 0>>, <<-3, 1, 0>>,
      <<0, -3, 0>>, <<0, 5, 0>>, <<-3, -1, 0>>, <<0, -1, -5>> }
QuadricRayDirections ==
    { <<0, 0, 1>>, <<0, 0, -1>>, <<0, 0, 2>>, <<1, -4, 0>>, <<1, 0, 0>>,
      <<0, 1, 0>>, <<0, -1, 0>>, <<1, -1, 0>>, <<-1, 0, 0>> }
QuadricRays == [origin : QuadricRayOrigins, direction : QuadricRayDirections]

(* The rays tried against a surface: for a quadric, those whose quadratic  *)
(* has a non-zero leading coefficient and an exact square root.            *)
ExactRoots(co) ==
    LET discr == discriminant(co[1], co[2], co[3])
    IN  co[1] # QZero /\ (QLess(discr, QZero) \/ HasExactSqrt(discr))
RaysFor(surface) ==
    CASE surface.kind = "plane" -> QuadricRays
      [] surface.kind = "sphere" ->
            { r \in QuadricRays : ExactRoots(Sphere_coefficients(surface, QRay(r))) }
      [] surface.kind = "cone" ->
            { r \in QuadricRays : ExactRoots(Cone_coefficients(surface, QRay(r))) }
      [] surface.kind = "triangle" -> Rays
      [] surface.kind = "transformed" ->
            { r \in QuadricRays :
                LET direction == QVOf(Mat3_mul_Vec3(surface.transformation_inv.transform_mat,
                                                    RVecOf(QV(r.direction))))
                IN  /\ HasExactSqrt(QVNormSquared(direction))
                    /\ surface.surface.kind = "sphere" =>
                          ExactRoots(Sphere_coefficients(surface.surface,
                                                         ray_object(surface, QRay(r)))) }

SurfaceInit ==
    /\ sf_surface \in Surfaces
    /\ sf_ray \in RaysFor(sf_surface)
    /\ sf_hit = None
    /\ sf_pc = {}
    /\ MeshIdle /\ MatrixIdle /\ ReflIdle /\ RenderIdle /\ SceneIdle /\ RootsIdle
    /\ CameraIdle /\ AppIdle /\ RastIdle

surface_rest ==
    <<mesh_vars, matrix_vars, refl_vars, render_vars, scene_vars, roots_vars,
      camera_vars, app_vars, rast_vars>>

(* plane.compute_hit(&ray, ..) *)
PlaneComputeHit ==
    /\ sf_pc = {} /\ sf_surface.kind = "plane"
    /\ sf_hit' = Plane_compute_hit(sf_surface, QRay(sf_ray))
    /\ sf_pc' = {"compute_hit"}
    /\ UNCHANGED <<sf_surface, sf_ray>>
    /\ UNCHANGED surface_rest

(* sphere.compute_hit(&ray, ..) *)
SphereComputeHit ==
    /\ sf_pc = {} /\ sf_surface.kind = "sphere"
    /\ sf_hit' = Sphere_compute_hit(sf_surface, QRay(sf_ray))
    /\ sf_pc' = {"compute_hit"}
    /\ UNCHANGED <<sf_surface, sf_ray>>
    /\ UNCHANGED surface_rest

(* cone.compute_hit(&ray, ..) *)
ConeComputeHit ==
    /\ sf_pc = {} /\ sf_surface.kind = "cone"
    /\ sf_hit' = Cone_compute_hit(sf_surface, QRay(sf_ray))
    /\ sf_pc' = {"compute_hit"}
    /\ UNCHANGED <<sf_surface, sf_ray>>
    /\ UNCHANGED surface_rest

(* triangle.compute_hit(&ray, ..) *)
TriangleComputeHit ==
    /\ sf_pc = {} /\ sf_surface.kind = "triangle"
    /\ sf_hit' = Triangle_compute_hit(sf_surface.tri, sf_ray)
    /\ sf_pc' = {"compute_hit"}
    /\ UNCHANGED <<sf_surface, sf_ray>>
    /\ UNCHANGED surface_rest

(* transformed_surface.compute_hit(&ray, ..) *)
TransformedComputeHit ==
    /\ sf_pc = {} /\ sf_surface.kind = "transformed"
    /\ sf_hit' = TransformedSurface_compute_hit(sf_surface, QRay(sf_ray))
    /\ sf_pc' = {"compute_hit"}
    /\ UNCHANGED <<sf_surface, sf_ray>>
    /\ UNCHANGED surface_rest

SurfaceNext ==
    \/ PlaneComputeHit \/ SphereComputeHit \/ ConeComputeHit \/ TriangleComputeHit
    \/ TransformedComputeHit

SpecSurface == SurfaceInit /\ [][SurfaceNext]_vars

----------------------------------------------------------------------------
(* Claims about the surfaces. *)
SurfaceCalled == sf_pc = {"compute_hit"}

(* The roots find_square_roots returns for these coefficients, as a set. *)
RootSet(co) ==
    LET roots == find_square_roots(co[1], co[2], co[3])
    IN  IF ~IsSome(roots) THEN {}
        ELSE {Unwrap(roots)[1]}
             \cup (IF IsSome(Unwrap(roots)[2]) THEN {Unwrap(Unwrap(roots)[2])} ELSE {})
NegativeDiscriminant(co) == QLess(discriminant(co[1], co[2], co[3]), QZero)
AllRootsBelowMinRayT(co) == \A x \in RootSet(co) : QLess(x, MinRayT)

(* The parameter at which a ray meets the plane through `bias` with        *)
(* normal `normal`, for a ray not parallel to it.                          *)
PlaneParameter(bias, normal, r) ==
    QDiv(QVDot(QVSub(bias, r.origin), normal), QVDot(normal, r.direction))

TestSphereRay == [origin |-> <<0, 0, -5>>, direction |-> <<0, 0, 1>>]

(* C13: a sphere of radius r, 0 < r < 5, centred at the origin, and the    *)
(* unit-direction ray from (0, 0, -5) towards the centre: compute_hit      *)
(* returns a hit with t = 5 - r.                                           *)
C13_SphereHitAtFiveMinusRadius ==
    ( /\ SurfaceCalled
      /\ sf_surface.kind = "sphere"
      /\ sf_surface.center = QV(<<0, 0, 0>>)
      /\ QLess(QZero, sf_surface.radius) /\ QLess(sf_surface.radius, QInt(5))
      /\ sf_ray = TestSphereRay )
    => /\ IsSome(sf_hit)
       /\ Unwrap(sf_hit).t = QSub(QInt(5), sf_surface.radius)

(* C13 witness: the unit sphere of the test, hit at t = 4. *)
C13_Witness ==
    /\ SurfaceCalled
    /\ sf_surface.kind = "sphere"
    /\ sf_surface.center = QV(<<0, 0, 0>>)
    /\ sf_surface.radius = QInt(1)
    /\ sf_ray = TestSphereRay
    /\ IsSome(sf_hit)
    /\ Unwrap(sf_hit).t = QInt(4)

(* The parameters t >= MIN_RAY_T at which the ray meets the cone: its      *)
(* lateral surface at a height within [apex.y - height, apex.y], or its    *)
(* base disk.                                                              *)
ConeLateralHits(self, r) ==
    { t \in RootSet(Cone_coefficients(self, r)) :
        /\ ~QLess(t, MinRayT)
        /\ InHeightRange(self, Ray_compute_point(r, t)[2]) }
ConeBaseHits(self, r) ==
    IF r.direction[2] = QZero THEN {}
    ELSE LET t == QDiv(QSub(BaseY(self), r.origin[2]), r.direction[2])
             point == Ray_compute_point(r, t)
             dx == QSub(point[1], self.apex[1])
             dz == QSub(point[3], self.apex[3])
             radius == QMul(self.height, self.tanh_half_angle)
         IN  IF /\ ~QLess(t, MinRayT)
                /\ ~QLess(QSquare(radius), QAdd(QSquare(dx), QSquare(dz)))
             THEN {t} ELSE {}
ConeValidHits(self, r) == ConeLateralHits(self, r) \cup ConeBaseHits(self, r)

(* C15: Cone::compute_hit returns the closest valid hit, the smallest      *)
(* t >= MIN_RAY_T at which the ray meets the lateral surface within the    *)
(* height range or the base disk, and no hit only when there is none; a    *)
(* lateral intersection inside the height range is reported also when the  *)
(* other root lies outside the range.                                      *)
C15_ConeReturnsClosestValidHit ==
    (SurfaceCalled /\ sf_surface.kind = "cone") =>
        LET valid == ConeValidHits(sf_surface, QRay(sf_ray))
        IN  IF valid = {} THEN sf_hit = None
            ELSE /\ IsSome(sf_hit)
                 /\ Unwrap(sf_hit).t \in valid
                 /\ \A t \in valid : ~QLess(t, Unwrap(sf_hit).t)

(* The same statement over the rays whose smallest root >= MIN_RAY_T is    *)
(* within the height range, or that have no such root.                     *)
FirstRootInRange(self, r) ==
    LET above == { t \in RootSet(Cone_coefficients(self, r)) : ~QLess(t, MinRayT) }
    IN  \A t \in above :
            (\A u \in above : ~QLess(u, t))
                => InHeightRange(self, Ray_compute_point(r, t)[2])
Aux_ConeClosestWhenFirstRootInRange ==
    (SurfaceCalled /\ sf_surface.kind = "cone" /\ FirstRootInRange(sf_surface, QRay(sf_ray))) =>
        LET valid == ConeValidHits(sf_surface, QRay(sf_ray))
        IN  IF valid = {} THEN sf_hit = None
            ELSE /\ IsSome(sf_hit)
                 /\ Unwrap(sf_hit).t \in valid
                 /\ \A t \in valid : ~QLess(t, Unwrap(sf_hit).t)

----------------------------------------------------------------------------
(* Claims about the tree from_triangles_list builds. *)
Built == "from_obj" \in mesh_pc /\ IsSome(bvh)

(* The triangles a subtree stores, slot by slot from left to right. *)
RECURSIVE StoredTriangles(_)
StoredTriangles(node) ==
    (IF IsSome(node.triangle_left) THEN <<Unwrap(node.triangle_left)>> ELSE << >>)
    \o (IF IsSome(node.bvh_left) THEN StoredTriangles(Unwrap(node.bvh_left)) ELSE << >>)
    \o (IF IsSome(node.triangle_right) THEN <<Unwrap(node.triangle_right)>> ELSE << >>)
    \o (IF IsSome(node.bvh_right) THEN StoredTriangles(Unwrap(node.bvh_right)) ELSE << >>)

(* No side of the node holds both a triangle and a child. *)
OneOwnerPerSide(node) ==
    /\ ~(IsSome(node.triangle_left) /\ IsSome(node.bvh_left))
    /\ ~(IsSome(node.triangle_right) /\ IsSome(node.bvh_right))

OwnsTriangles(node) == IsSome(node.triangle_left) \/ IsSome(node.triangle_right)
OwnsChildren(node) == IsSome(node.bvh_left) \/ IsSome(node.bvh_right)

(* C16: every node of the built tree owns either only triangles or only    *)
(* child nodes: none holds a triangle on one side and a child subtree on   *)
(* the other, and no side holds both a triangle and a child.               *)
C16_NodeOwnsTrianglesOrChildren ==
    Built =>
        \A node \in Nodes(Unwrap(bvh)) :
            /\ ~(OwnsTriangles(node) /\ OwnsChildren(node))
            /\ OneOwnerPerSide(node)

(* The part of the statement about one side. *)
Aux_OneOwnerPerSide ==
    Built => \A node \in Nodes(Unwrap(bvh)) : OneOwnerPerSide(node)

(* How many times x occurs in the sequence seq. *)
Occurrences(seq, x) == Cardinality({ i \in 1..Len(seq) : seq[i] = x })

(* C17: the built tree partitions its input: every input triangle is in    *)
(* exactly one triangle slot of the tree and the tree stores no other      *)
(* triangle, so the stored triangles are as many as the list is long (a    *)
(* triangle listed twice is stored twice).                                 *)
C17_TreePartitionsTriangles ==
    Built =>
        LET stored == StoredTriangles(Unwrap(bvh))
        IN  /\ Len(stored) = Len(triangles)
            /\ \A tri \in TriangleChoices :
                  Occurrences(stored, tri) = Occurrences(triangles, tri)

(* C17 witness: three different triangles, stored in a root with a         *)
(* triangle on one side and a leaf of two on the other.                    *)
C17_Witness ==
    /\ Built
    /\ Len(triangles) = 3
    /\ Cardinality({ triangles[i] : i \in 1..3 }) = 3
    /\ Cardinality(Nodes(Unwrap(bvh))) = 2
    /\ Len(StoredTriangles(Unwrap(bvh))) = 3

(* The vertices of a triangle, in units of 0.00001. *)
VerticesOf(tri) == { VecScale(v, UNIT) : v \in {V0(tri), V1(tri), V2(tri)} }

BoxContainsPoint(box, point) ==
    \A idx \in 1..3 : box.min_corner[idx] < point[idx] /\ point[idx] < box.max_corner[idx]
BoxContainsBox(outer, inner) ==
    \A idx \in 1..3 :
        /\ outer.min_corner[idx] <= inner.min_corner[idx]
        /\ inner.max_corner[idx] <= outer.max_corner[idx]
Children(node) ==
    (IF IsSome(node.bvh_left) THEN {Unwrap(node.bvh_left)} ELSE {})
    \cup (IF IsSome(node.bvh_right) THEN {Unwrap(node.bvh_right)} ELSE {})

(* C18: the bounding box of every node of the built tree contains, with    *)
(* its padding, every vertex of every triangle stored in the node's        *)
(* subtree, and contains the bounding box of each child node.              *)
C18_BoxContainsSubtree ==
    Built =>
        \A node \in Nodes(Unwrap(bvh)) :
            /\ LET stored == StoredTriangles(node)
               IN  \A i \in 1..Len(stored) :
                      \A point \in VerticesOf(stored[i]) :
                          BoxContainsPoint(node.bbox, point)
            /\ \A child \in Children(node) : BoxContainsBox(node.bbox, child.bbox)

(* C18 witness: a root with a child whose box is strictly smaller than the *)
(* root's box.                                                             *)
C18_Witness ==
    /\ Built
    /\ \E child \in Children(Unwrap(bvh)) :
          /\ BoxContainsBox(Unwrap(bvh).bbox, child.bbox)
          /\ child.bbox # Unwrap(bvh).bbox

(* The triangles stored on the left and on the right side of a node. *)
LeftTriangles(node) ==
    (IF IsSome(node.triangle_left) THEN <<Unwrap(node.triangle_left)>> ELSE << >>)
    \o (IF IsSome(node.bvh_left) THEN StoredTriangles(Unwrap(node.bvh_left)) ELSE << >>)
RightTriangles(node) ==
    (IF IsSome(node.triangle_right) THEN <<Unwrap(node.triangle_right)>> ELSE << >>)
    \o (IF IsSome(node.bvh_right) THEN StoredTriangles(Unwrap(node.bvh_right)) ELSE << >>)

(* The centroid of a triangle, times 3: the sum of its three vertices. *)
Centroid(tri) == VecAdd(VecAdd(V0(tri), V1(tri)), V2(tri))

(* The node splits its n > 2 triangles at the median of the order by the  *)
(* x-coordinate that CenterOf(tri) gives.                                  *)
SplitAtMedianBy(node, CenterOf(_)) ==
    LET left == LeftTriangles(node)
        right == RightTriangles(node)
        n == Len(left) + Len(right)
    IN  n > 2 =>
            /\ Len(left) = n \div 2
            /\ Len(right) = n - (n \div 2)
            /\ \A i \in 1..Len(left) : \A j \in 1..Len(right) :
                  CenterOf(left[i])[1] <= CenterOf(right[j])[1]

(* C19: a node built from n > 2 triangles splits them at the median of the *)
(* order by centroid x, the centroid being the mean of the three vertices: *)
(* the left half has floor(n/2) triangles, the right half the rest, and    *)
(* every left triangle's centroid x is <= every right triangle's.          *)
C19_SplitAtMedianOfCentroidX ==
    Built => \A node \in Nodes(Unwrap(bvh)) : SplitAtMedianBy(node, Centroid)

(* The same statement with the point Triangle::compute_center returns in   *)
(* place of the centroid.                                                  *)
Aux_SplitAtMedianOfComputeCenterX ==
    Built => \A node \in Nodes(Unwrap(bvh)) : SplitAtMedianBy(node, compute_center)

----------------------------------------------------------------------------
(* The edge tests of a triangle, on rationals. *)
QVCross(a, b) ==
    << QSub(QMul(a[2], b[3]), QMul(a[3], b[2])),
       QSub(QMul(a[3], b[1]), QMul(a[1], b[3])),
       QSub(QMul(a[1], b[2]), QMul(a[2], b[1])) >>

(* The point is on the interior side of the directed edge from -> to: the  *)
(* cross product of the edge with the vector to the point does not point   *)
(* against the face normal.                                                *)
OnInteriorSide(point, from, to, normal) ==
    ~QLess(QVDot(normal, QVCross(QVSub(to, from), QVSub(point, from))), QZero)

(* The ray meets the plane of the triangle's face at t >= MIN_RAY_T. *)
MeetsFacePlane(tri, r) ==
    /\ ~NormalIsNaN(tri)
    /\ QVDot(QV(compute_normal(tri)), r.direction) # QZero
    /\ ~QLess(PlaneParameter(QV(V0(tri)), QV(compute_normal(tri)), r), MinRayT)

AllEdgesInterior(tri, r) ==
    LET normal == QV(compute_normal(tri))
        point == Ray_compute_point(r, PlaneParameter(QV(V0(tri)), normal, r))
    IN  /\ OnInteriorSide(point, QV(V0(tri)), QV(V1(tri)), normal)
        /\ OnInteriorSide(point, QV(V1(tri)), QV(V2(tri)), normal)
        /\ OnInteriorSide(point, QV(V2(tri)), QV(V0(tri)), normal)

(* C20: for a ray that is not parallel to the face and meets its plane at  *)
(* t >= MIN_RAY_T, Triangle::compute_hit returns a hit exactly when the    *)
(* three directed-edge tests (v0->v1, v1->v2, v2->v0) all place the hit    *)
(* point on the interior side; one edge test that places it outside makes  *)
(* the result no hit.                                                      *)
C20_HitIffAllEdgeTestsInterior ==
    ( /\ SurfaceCalled
      /\ sf_surface.kind = "triangle"
      /\ MeetsFacePlane(sf_surface.tri, QRay(sf_ray)) )
    => (IsSome(sf_hit) <=> AllEdgesInterior(sf_surface.tri, QRay(sf_ray)))

(* C20 witness: a ray that meets the face's plane on the interior side of  *)
(* the first two edges and outside the third, and got no hit.              *)
C20_Witness ==
    /\ SurfaceCalled
    /\ sf_surface.kind = "triangle"
    /\ MeetsFacePlane(sf_surface.tri, QRay(sf_ray))
    /\ LET tri == sf_surface.tri
           r == QRay(sf_ray)
           normal == QV(compute_normal(tri))
           point == Ray_compute_point(r, PlaneParameter(QV(V0(tri)), normal, r))
       IN  /\ OnInteriorSide(point, QV(V0(tri)), QV(V1(tri)), normal)
           /\ OnInteriorSide(point, QV(V1(tri)), QV(V2(tri)), normal)
           /\ ~OnInteriorSide(point, QV(V2(tri)), QV(V0(tri)), normal)
    /\ sf_hit = None

----------------------------------------------------------------------------
(* The hit of the wrapped surface for the ray taken into its space, and    *)
(* the image in world space of the point of that hit.                      *)
LocalHit == Wrapped_compute_hit(sf_surface.surface, ray_object(sf_surface, QRay(sf_ray)))
WorldImageOfLocalHit ==
    QVOf(Transformation_mul_Point(sf_surface.transformation,
            RVecOf(Ray_compute_point(ray_object(sf_surface, QRay(sf_ray)), Unwrap(LocalHit).t))))

(* C25: TransformedSurface::compute_hit returns a hit if and only if the   *)
(* wrapped surface returns a hit for the ray transformed into local space, *)
(* and the returned t is the parameter along the original ray: the point   *)
(* ray.compute_point(t) is the transformation applied to the local hit     *)
(* point.                                                                  *)
C25_WorldParameterOfLocalHit ==
    (SurfaceCalled /\ sf_surface.kind = "transformed") =>
        /\ IsSome(sf_hit) <=> IsSome(LocalHit)
        /\ IsSome(sf_hit) =>
              Ray_compute_point(QRay(sf_ray), Unwrap(sf_hit).t) = WorldImageOfLocalHit

(* C25 witness: a hit whose world t differs from the t of the wrapped hit  *)
(* under a transformation with a translation and a matrix other than the   *)
(* identity.                                                               *)
C25_Witness ==
    /\ SurfaceCalled /\ sf_surface.kind = "transformed"
    /\ sf_surface.transformation.transform_mat # Mat3_identity
    /\ sf_surface.transformation.translation # RVec(<<0, 0, 0>>, 1)
    /\ IsSome(sf_hit)
    /\ Unwrap(sf_hit).t # Unwrap(LocalHit).t

----------------------------------------------------------------------------
(* camera.rs: the viewing plane and the rays of a camera.  The value of    *)
(* (fov * 0.5).tanh() is a rational of the model.                          *)
TanhHalfFov == { Q(1, 2), Q(2, 3) }
ProjectionTypes == { "Perspective", "Parallel" }

(* ViewingPlane::from_fov *)
ViewingPlane_from_fov(tanh_half_fov, z, width, height) ==
    LET y_half == tanh_half_fov
        x_half == QDiv(QMul(y_half, QInt(width)), QInt(height))
    IN  [z |-> QAdd(z, QDiv(QOne, tanh_half_fov)),
         x_min |-> QNeg(x_half), x_max |-> x_half,
         y_min |-> QNeg(y_half), y_max |-> y_half,
         width |-> width, height |-> height]

(* ViewingPlane::generate_uv_coords *)
generate_uv_coords(self, i, j) ==
    LET x_dist == QSub(self.x_max, self.x_min)
        y_dist == QSub(self.y_max, self.y_min)
        u == QAdd(self.x_min,
                  QDiv(QMul(x_dist, QAdd(QInt(i), Q(1, 2))), QInt(self.width)))
        v == QAdd(self.y_min,
                  QDiv(QMul(y_dist, QAdd(QInt(j), Q(1, 2))), QInt(self.height)))
    IN  <<u, v>>

(* Camera::from_z_position *)
Camera_from_z_position(z, tanh_half_fov, projection_type, width, height) ==
    [origin |-> <<QZero, QZero, z>>,
     direction |-> QV(<<0, 0, 1>>),
     up |-> QV(<<0, 1, 0>>),
     right |-> QV(<<1, 0, 0>>),
     projection_type |-> projection_type,
     viewing_plane |-> ViewingPlane_from_fov(tanh_half_fov, z, width, height)]

(* Camera::generate_ray with the Parallel arm taken for both projection    *)
(* types.                                                                  *)
Mutant_generate_ray_always_parallel(self, i, j) ==
    LET uv == generate_uv_coords(self.viewing_plane, i, j)
    IN  [origin |-> QVAdd(QVAdd(self.origin, QVScale(self.right, uv[1])),
                          QVScale(self.up, uv[2])),
         direction |-> QVScale(self.direction, QInt(-1))]

(* Camera::generate_ray *)
generate_ray(self, i, j) ==
    LET uv == generate_uv_coords(self.viewing_plane, i, j)
        d == QSub(self.viewing_plane.z, self.origin[3])
    IN  IF self.projection_type = "Perspective"
        THEN [origin |-> self.origin,
              direction |-> QVAdd(QVAdd(QVScale(self.direction, QNeg(d)),
                                        QVScale(self.right, uv[1])),
                                  QVScale(self.up, uv[2]))]
        ELSE [origin |-> QVAdd(QVAdd(self.origin, QVScale(self.right, uv[1])),
                               QVScale(self.up, uv[2])),
              direction |-> QVScale(self.direction, QInt(-1))]

(* The (i, j) generate_ray is called with: the columns 0..WIDTH-1 and the  *)
(* rows render_state can pass, 0..HEIGHT.                                  *)
CameraPixels == CallArgs

CameraInit ==
    /\ cam_camera \in { Camera_from_z_position(QInt(-1), t, pt, WIDTH, HEIGHT) :
                          t \in TanhHalfFov, pt \in ProjectionTypes }
    /\ cam_rays = [p \in CameraPixels |-> None]
    /\ MeshIdle /\ MatrixIdle /\ ReflIdle /\ RenderIdle /\ SceneIdle /\ RootsIdle
    /\ SurfaceIdle /\ AppIdle /\ RastIdle

camera_rest ==
    <<mesh_vars, matrix_vars, refl_vars, render_vars, scene_vars, roots_vars,
      surface_vars, app_vars, rast_vars>>

(* camera.generate_ray(i, j) *)
GenerateRay(i, j) ==
    /\ cam_rays[<<i, j>>] = None
    /\ cam_rays' = [cam_rays EXCEPT ![<<i, j>>] = Some(generate_ray(cam_camera, i, j))]
    /\ UNCHANGED cam_camera
    /\ UNCHANGED camera_rest

CameraNext == \E p \in CameraPixels : GenerateRay(p[1], p[2])

SpecCamera == CameraInit /\ [][CameraNext]_vars

Generated == { p \in CameraPixels : IsSome(cam_rays[p]) }
RayOf(p) == Unwrap(cam_rays[p])

(* C26: generate_ray varies one part of the ray with the pixel.  Under     *)
(* Perspective projection every pixel's ray starts at the camera origin    *)
(* and the rays of two different pixels differ in direction; under         *)
(* Parallel projection every pixel's ray has the same direction and its    *)
(* origin is the camera origin offset by u * right + v * up, (u, v) being  *)
(* the viewing-plane coordinates of the pixel.                             *)
C26_RayVariesInOnePart ==
    \A p \in Generated :
        LET uv == generate_uv_coords(cam_camera.viewing_plane, p[1], p[2])
        IN  IF cam_camera.projection_type = "Perspective"
            THEN /\ RayOf(p).origin = cam_camera.origin
                 /\ \A q \in Generated \ {p} : RayOf(q).direction # RayOf(p).direction
            ELSE /\ \A q \in Generated : RayOf(q).direction = RayOf(p).direction
                 /\ RayOf(p).origin =
                        QVAdd(cam_camera.origin,
                              QVAdd(QVScale(cam_camera.right, uv[1]),
                                    QVScale(cam_camera.up, uv[2])))
                 /\ \A q \in Generated \ {p} : RayOf(q).origin # RayOf(p).origin

(* C26 witness: a Perspective camera for which the rays of two pixels of   *)
(* different columns and rows have been generated.                         *)
C26_Witness ==
    /\ cam_camera # <<>>
    /\ cam_camera.projection_type = "Perspective"
    /\ \E p, q \in Generated :
          /\ p[1] # q[1] /\ p[2] # q[2]
          /\ RayOf(p).origin = RayOf(q).origin
          /\ RayOf(p).direction # RayOf(q).direction

(* The same under Parallel projection: two rays of one direction and       *)
(* different origins.                                                      *)
ParallelRaysGenerated ==
    /\ cam_camera # <<>>
    /\ cam_camera.projection_type = "Parallel"
    /\ \E p, q \in Generated :
          /\ p[1] # q[1] /\ p[2] # q[2]
          /\ RayOf(p).origin # RayOf(q).origin
          /\ RayOf(p).direction = RayOf(q).direction

(* The viewing planes of the cameras compute_scene builds *)
RenderViewingPlanes ==
    { ViewingPlane_from_fov(t, QInt(-1), WIDTH, HEIGHT) : t \in TanhHalfFov }

(* (u, v) lies in [x_min, x_max] x [y_min, y_max] *)
InsidePlane(self, uv) ==
    /\ ~QLess(uv[1], self.x_min) /\ ~QLess(self.x_max, uv[1])
    /\ ~QLess(uv[2], self.y_min) /\ ~QLess(self.y_max, uv[2])

Called == { a \in CallArgs : rnd_calls # <<>> /\ rnd_calls[a] > 0 }

(* C28: every (column, row) render_state passes to compute_pixel is a      *)
(* valid pixel coordinate, 0 <= column < WIDTH and 0 <= row < HEIGHT, and  *)
(* the viewing-plane coordinates generate_uv_coords gives for it lie       *)
(* within [x_min, x_max] x [y_min, y_max].                                 *)
C28_PixelArgsAreValid ==
    \A a \in Called :
        /\ a[1] \in 0..(WIDTH - 1)
        /\ a[2] \in 0..(HEIGHT - 1)
        /\ \A vp \in RenderViewingPlanes :
              InsidePlane(vp, generate_uv_coords(vp, a[1], a[2]))

(* What the code does: the rows passed are 1..HEIGHT, and the (u, v) of a  *)
(* call lies outside the plane exactly when its row is HEIGHT.             *)
Aux_RowsPassedAreOneToHeight ==
    \A a \in Called :
        /\ a[1] \in 0..(WIDTH - 1)
        /\ a[2] \in 1..HEIGHT
        /\ \A vp \in RenderViewingPlanes :
              InsidePlane(vp, generate_uv_coords(vp, a[1], a[2])) <=> a[2] # HEIGHT

----------------------------------------------------------------------------
(* ray_tracer.rs: the event loop.  State holds selected_scene_idx and the  *)
(* RenderOptions; the fields of the model are those an event handler       *)
(* writes.  camera_opts.position is counted in steps of move_speed along   *)
(* the first and the third axis of the look-at frame (yaw and pitch never  *)
(* change), fov in degrees, and object_transformations by the time it was  *)
(* last computed for.                                                      *)
MeshNormalTypes == { "Provided", "Precomputed", "Face" }
BVTypes == { "BBox", "Sphere", "None" }
MaxDisplayLevel == 1
MaxCameraSteps == 1
FOV_MIN == 15
FOV_MAX == 165
FOV_DEFAULT == 90
ScrollSteps == { -75, 75 }
AppTimes == { 1 }
Keys == { "F", "G", "B", "Key1", "Key2", "Key3", "Up", "Down", "I", "O", "P", "Q", "Space" }
HeldKeys == { {}, {"W"}, {"S"}, {"D"}, {"A"} }
AppEvents ==
    { [kind |-> "KeyReleased", key |-> key] : key \in Keys }
    \cup { [kind |-> "MouseWheel", y |-> y] : y \in ScrollSteps }
    \cup { [kind |-> kind] : kind \in { "MouseEntered", "MouseExited", "Other" } }

(* The keys held down when an event arrives, and the event: any event     *)
(* with no key held, and a key held during an event nothing matches or     *)
(* during the release of a scene key.                                      *)
AppInputs ==
    { <<{}, event>> : event \in AppEvents }
    \cup { <<down, [kind |-> "Other"]>> : down \in HeldKeys }
    \cup { <<down, [kind |-> "KeyReleased", key |-> "Key3"]>> : down \in HeldKeys }

(* RayOptions::from_depth(0): the function is not part of the sources, its *)
(* result is any RayOptions.                                               *)
RayOptionsDefaults ==
    [mesh_normal_type : { "Provided", "Face" }, bv_type : { "BBox" },
     bvh_display_level : { 0 }]

(* init_state, with RenderOptions::defaults *)
init_state(ray_opts) ==
    [selected_scene_idx |-> 0,
     ray_opts |-> ray_opts,
     use_soft_shadows |-> FALSE,
     use_supersampling |-> FALSE,
     reflection_glossiness |-> QZero,
     selected_pixel |-> None,
     specular_strengths |-> <<QZero, QZero, QZero, QZero, QZero>>,
     fov |-> FOV_DEFAULT,
     position |-> <<0, 0>>,
     object_transformations |-> None,
     is_mouse_inited |-> FALSE,
     mouse_is_in_window |-> FALSE]

(* process_key_released_event with Key3 selecting the scene after the last *)
Mutant_process_key_released_event_scene_3(state, ray_opts, key) ==
    CASE key = "Key1" -> [state EXCEPT !.selected_scene_idx = 0]
      [] key = "Key2" -> [state EXCEPT !.selected_scene_idx = 1]
      [] key = "Key3" -> [state EXCEPT !.selected_scene_idx = 3]
      [] key = "Q" -> init_state(ray_opts)
      [] OTHER -> state

(* process_key_released_event *)
process_key_released_event(state, ray_opts, key) ==
    CASE key = "F" ->
            [state EXCEPT !.ray_opts.mesh_normal_type =
                CASE @ = "Provided" -> "Precomputed"
                  [] @ = "Precomputed" -> "Face"
                  [] @ = "Face" -> "Provided"]
      [] key = "G" ->
            [state EXCEPT !.ray_opts.mesh_normal_type =
                CASE @ = "Precomputed" -> "Provided"
                  [] @ = "Face" -> "Precomputed"
                  [] @ = "Provided" -> "Face"]
      [] key = "B" ->
            [state EXCEPT !.ray_opts.bv_type =
                CASE @ = "BBox" -> "Sphere"
                  [] @ = "Sphere" -> "None"
                  [] @ = "None" -> "BBox"]
      [] key = "Key1" -> [state EXCEPT !.selected_scene_idx = 0]
      [] key = "Key2" -> [state EXCEPT !.selected_scene_idx = 1]
      [] key = "Key3" -> [state EXCEPT !.selected_scene_idx = 2]
      [] key = "Up" -> [state EXCEPT !.ray_opts.bvh_display_level = @ + 1]
      [] key = "Down" -> [state EXCEPT !.ray_opts.bvh_display_level = @ - 1]
      [] key = "I" -> [state EXCEPT !.use_supersampling = ~@]
      [] key = "O" -> [state EXCEPT !.use_soft_shadows = ~@]
      [] key = "P" ->
            [state EXCEPT !.reflection_glossiness = IF @ = QZero THEN Q(1, 5) ELSE QZero]
      [] key = "Q" -> init_state(ray_opts)
      [] OTHER -> state

(* RenderOptions::update_transformations_on_time *)
update_transformations_on_time(state, time) ==
    [state EXCEPT !.object_transformations = Some(time)]

(* process_pressed_keys *)
process_pressed_keys(state, down) ==
    LET w == IF "W" \in down THEN [state EXCEPT !.position[2] = @ - 1] ELSE state
        s == IF "S" \in down THEN [w EXCEPT !.position[2] = @ + 1] ELSE w
        dd == IF "D" \in down THEN [s EXCEPT !.position[1] = @ + 1] ELSE s
        a == IF "A" \in down THEN [dd EXCEPT !.position[1] = @ - 1] ELSE dd
    IN  a

(* process_mouse_events *)
process_mouse_events(state, ray_opts, event) ==
    CASE event.kind = "MouseEntered" ->
            [state EXCEPT !.mouse_is_in_window = TRUE, !.is_mouse_inited = FALSE]
      [] event.kind = "MouseExited" ->
            [state EXCEPT !.mouse_is_in_window = FALSE, !.is_mouse_inited = FALSE,
                          !.selected_pixel = None,
                          !.specular_strengths = <<QZero, QZero, QZero, QZero, QOne>>]
      [] event.kind = "KeyReleased" ->
            process_key_released_event(state, ray_opts, event.key)
      [] event.kind = "MouseWheel" ->
            [state EXCEPT !.fov = Max2(Min2(@ + event.y, FOV_MAX), FOV_MIN)]
      [] OTHER -> state

(* update_on_event *)
update_on_event(state, ray_opts, time, down, event) ==
    LET timed == IF state.selected_scene_idx = 0
                 THEN update_transformations_on_time(state, time)
                 ELSE state
    IN  process_mouse_events(process_pressed_keys(timed, down), ray_opts, event)

(* State::compute_scene: the scene of the selected index, or the panic     *)
(* 'Wrong scene ID has been selected!'.                                    *)
Panicked == "panic"
compute_scene(state) ==
    IF state.selected_scene_idx \in {0, 1, 2}
    THEN Some(state.selected_scene_idx)
    ELSE Panicked

(* The counters of the model stay within their bounds. *)
AppWithinBounds(state) ==
    /\ state.ray_opts.bvh_display_level \in 0..MaxDisplayLevel
    /\ Abs(state.position[1]) + Abs(state.position[2]) <= MaxCameraSteps

(* init_nannou: init_state() *)
AppInit ==
    /\ app_ray_opts \in RayOptionsDefaults
    /\ app_state = init_state(app_ray_opts)
    /\ app_scene = None
    /\ MeshIdle /\ MatrixIdle /\ ReflIdle /\ RenderIdle /\ SceneIdle /\ RootsIdle
    /\ SurfaceIdle /\ CameraIdle /\ RastIdle

app_rest ==
    <<mesh_vars, matrix_vars, refl_vars, render_vars, scene_vars, roots_vars,
      surface_vars, camera_vars, rast_vars>>

(* An event arrives: update_on_event(app, state, event) *)
UpdateOnEvent(time, down, event) ==
    /\ app_scene # Panicked
    /\ LET after == update_on_event(app_state, app_ray_opts, time, down, event)
       IN  /\ AppWithinBounds(after)
           /\ app_state' = after
    /\ UNCHANGED <<app_ray_opts, app_scene>>
    /\ UNCHANGED app_rest

(* A frame is drawn: view calls render_state, which calls compute_scene *)
View ==
    /\ app_scene # Panicked
    /\ app_scene' = compute_scene(app_state)
    /\ UNCHANGED <<app_ray_opts, app_state>>
    /\ UNCHANGED app_rest

AppNext ==
    \/ \E time \in AppTimes, input \in AppInputs :
          UpdateOnEvent(time, input[1], input[2])
    \/ View

SpecApp == AppInit /\ [][AppNext]_vars

(* C29: after any sequence of key, mouse and reset (Q) events from         *)
(* init_state, selected_scene_idx is 0, 1 or 2, and compute_scene does not *)
(* reach its panic.                                                        *)
C29_SceneIndexInRange ==
    /\ app_state.selected_scene_idx \in {0, 1, 2}
    /\ app_scene # Panicked

(* C29 witness: the third scene has been drawn, and the state has since    *)
(* been reset by Q after other options were changed.                       *)
C29_Witness ==
    /\ app_scene = Some(2)
    /\ app_state # <<>>
    /\ app_state = init_state(app_ray_opts)

----------------------------------------------------------------------------
(* rasterizer.rs: the event loop.  The loaded model is the mesh of the     *)
(* .obj file: the length of its positions, normals and texcoords arrays    *)
(* and the vertex indices of its faces.  The mouse position is one         *)
(* coordinate, fov is in degrees, and object_to_world is counted by the    *)
(* arcball rotations applied to it.                                        *)
MaxRotations == 1
MousePositions == { 0, 1 }
RastKeys == { "L", "A", "Q", "T", "S", "Space" }
MouseButtons == { "Left", "Right" }
RastEvents ==
    { [kind |-> "KeyPressed", key |-> key] : key \in RastKeys }
    \cup { [kind |-> kind, button |-> button] :
             kind \in { "MousePressed", "MouseReleased" }, button \in MouseButtons }
    \cup { [kind |-> "MouseWheel", y |-> y] : y \in ScrollSteps }
    \cup { [kind |-> "Other"] }

(* Meshes of three vertices: without faces, with one face, with two faces  *)
(* of opposite orientation; with or without normals and texcoords.         *)
RastModels ==
    [positions : { 9 },
     normals : { 0, 9 },
     texcoords : { 0, 6 },
     indices : { <<>>, <<0, 1, 2>>, <<0, 1, 2, 2, 1, 0>> }]

num_triangles(model) == Len(model.indices) \div 3

(* rasterizer.rs, init_state *)
Rasterizer_init_state(model) ==
    [fov |-> FOV_DEFAULT,
     curr_mouse_x |-> 0,
     object_to_world |-> 0,
     arcball_enabled |-> FALSE,
     is_gouraud_shading |-> TRUE,
     is_antialiasing |-> FALSE,
     specular_lighting_enabled |-> FALSE,
     tex_enabled |-> FALSE]

(* render_state: what the loop over the faces reads.  culled is the set of *)
(* faces the backface test skips; a face that is not skipped reads the     *)
(* normals of its three vertices when is_gouraud_shading is off and their  *)
(* texcoords when the model has texcoords and tex_enabled is on.  A read   *)
(* past the end of an array panics.                                        *)
NormalReads(model, face) ==
    { model.indices[face * 3 + k] * 3 + c : k \in 1..3, c \in 0..2 }
TexReads(model, face) ==
    { model.indices[face * 3 + k] * 2 + c : k \in 1..3, c \in 0..1 }
Rasterizer_render_state(state, model, culled) ==
    LET drawn == (0..(num_triangles(model) - 1)) \ culled
        normal_reads ==
            IF state.is_gouraud_shading THEN {}
            ELSE UNION { NormalReads(model, face) : face \in drawn }
        tex_reads ==
            IF model.texcoords # 0 /\ state.tex_enabled
            THEN UNION { TexReads(model, face) : face \in drawn }
            ELSE {}
    IN  IF \/ \E n \in normal_reads : n >= model.normals
           \/ \E t \in tex_reads : t >= model.texcoords
        THEN Panicked
        ELSE Some([normal_reads |-> normal_reads, tex_reads |-> tex_reads,
                   antialiasing |-> state.is_antialiasing])

(* update_on_event, KeyPressed(Key::L), as a plain toggle *)
Mutant_KeyPressed_L_plain_toggle(state, model) ==
    [state EXCEPT !.is_gouraud_shading = ~@]

(* update_on_event, KeyPressed(Key::L) *)
KeyPressed_L(state, model) ==
    [state EXCEPT !.is_gouraud_shading = ~@ \/ model.normals = 0]

(* update_on_event, the other arms of KeyPressed; Key::S is the render of  *)
(* the action                                                              *)
KeyPressed(state, model, key) ==
    CASE key = "L" -> KeyPressed_L(state, model)
      [] key = "A" -> [state EXCEPT !.is_antialiasing = ~@]
      [] key = "Q" -> [state EXCEPT !.specular_lighting_enabled = ~@]
      [] key = "T" -> [state EXCEPT !.tex_enabled = ~@ \/ model.normals = 0]
      [] OTHER -> state

(* update_on_event, the match on the window event; returns is TRUE when    *)
(* the arm returns from the function.                                      *)
WindowEvent(state, model, mouse_x, event) ==
    CASE event.kind = "MousePressed" ->
            IF event.button # "Left" THEN [state |-> state, returns |-> TRUE]
            ELSE [state |-> [state EXCEPT !.arcball_enabled = TRUE,
                                          !.curr_mouse_x = mouse_x],
                  returns |-> FALSE]
      [] event.kind = "MouseReleased" ->
            IF event.button # "Left" THEN [state |-> state, returns |-> TRUE]
            ELSE [state |-> [state EXCEPT !.arcball_enabled = FALSE],
                  returns |-> FALSE]
      [] event.kind = "KeyPressed" ->
            [state |-> KeyPressed(state, model, event.key), returns |-> FALSE]
      [] event.kind = "MouseWheel" ->
            [state |-> [state EXCEPT !.fov = Max2(Min2(@ + event.y, FOV_MAX), FOV_MIN)],
             returns |-> FALSE]
      [] OTHER -> [state |-> state, returns |-> FALSE]

(* update_on_event, after the match: the arcball rotation *)
Arcball(state, mouse_x) ==
    IF ~state.arcball_enabled THEN state
    ELSE IF state.curr_mouse_x = mouse_x THEN state
    ELSE [state EXCEPT !.object_to_world = @ + 1, !.curr_mouse_x = mouse_x]

Rasterizer_update_on_event(state, model, mouse_x, event) ==
    LET matched == WindowEvent(state, model, mouse_x, event)
    IN  IF matched.returns THEN matched.state
        ELSE Arcball(matched.state, mouse_x)

(* init_app: the model is loaded and init_state called; curr_mouse_x is    *)
(* set to the position of the mouse.                                       *)
RastInit ==
    /\ rast_model \in RastModels
    /\ \E mouse_x \in MousePositions :
          rast_state = [Rasterizer_init_state(rast_model) EXCEPT !.curr_mouse_x = mouse_x]
    /\ rast_render = None
    /\ MeshIdle /\ MatrixIdle /\ ReflIdle /\ RenderIdle /\ SceneIdle /\ RootsIdle
    /\ SurfaceIdle /\ CameraIdle /\ AppIdle

rast_rest ==
    <<mesh_vars, matrix_vars, refl_vars, render_vars, scene_vars, roots_vars,
      surface_vars, camera_vars, app_vars>>

Faces(model) == 0..(num_triangles(model) - 1)

(* An event arrives: update_on_event(app, state, event).  Key::S renders   *)
(* the state to save the image.                                            *)
RastUpdateOnEvent(mouse_x, event, culled) ==
    /\ rast_render # Panicked
    /\ LET after == Rasterizer_update_on_event(rast_state, rast_model, mouse_x, event)
       IN  /\ after.object_to_world <= MaxRotations
           /\ rast_state' = after
           /\ rast_render' =
                 IF event.kind = "KeyPressed" /\ event.key = "S"
                 THEN Rasterizer_render_state(after, rast_model, culled)
                 ELSE rast_render
    /\ UNCHANGED rast_model
    /\ UNCHANGED rast_rest

(* A frame is drawn: render_and_display calls render_state *)
RenderAndDisplay(culled) ==
    /\ rast_render # Panicked
    /\ rast_render' = Rasterizer_render_state(rast_state, rast_model, culled)
    /\ UNCHANGED <<rast_model, rast_state>>
    /\ UNCHANGED rast_rest

RastNext ==
    \/ \E mouse_x \in MousePositions, event \in RastEvents,
          culled \in SUBSET Faces(rast_model) :
          RastUpdateOnEvent(mouse_x, event, culled)
    \/ \E culled \in SUBSET Faces(rast_model) : RenderAndDisplay(culled)

SpecRast == RastInit /\ [][RastNext]_vars

(* C30: after any sequence of events from init_state, is_gouraud_shading   *)
(* is false only if the model's normals array is not empty, and no         *)
(* render_state has read past the end of the normals array (nor of any     *)
(* other array).                                                           *)
C30_NonGouraudOnlyWithNormals ==
    /\ ~rast_state.is_gouraud_shading => rast_model.normals # 0
    /\ rast_render # Panicked

(* C30 witness: a frame drawn on the per-vertex-normal path has read the   *)
(* normals of a face.                                                      *)
C30_Witness ==
    /\ rast_render # <<>> /\ rast_render # Panicked
    /\ ~rast_state.is_gouraud_shading
    /\ Unwrap(rast_render).normal_reads # {}

(* Key::L was pressed on a model without normals: the shading stays        *)
(* Gouraud.  (Key::T, which tests normals and not texcoords, turns         *)
(* tex_enabled on then.)                                                   *)
GouraudKeptWithoutNormals ==
    /\ rast_model # <<>>
    /\ rast_model.normals = 0
    /\ rast_state.is_gouraud_shading
    /\ rast_state.tex_enabled
    /\ IsSome(rast_render)

====
